---- MODULE Spec2Model ----
(***************************************************************************)
(* Model of the adaptive recommendation core of the study platform:        *)
(*   src/src/core/memory.py        RLState, load_state, save_state,        *)
(*                                 reset_state                             *)
(*   src/src/agents/rl_agent.py    RLAgent (update_from_feedback,          *)
(*                                 recommend_mode)                         *)
(*   src/src/core/analytics.py     record_quiz_answer                      *)
(*   src/src/core/orchestrator.py  ManagerAgent (the facade)               *)
(*                                                                         *)
(* Numbers.  Feedback values, Beta parameters and samples are floats in    *)
(* the source.  They are modelled in tenths: the integer 10 stands for     *)
(* 1.0, 5 for 0.5, 1 for 0.1.  A quotient a / b is kept as the pair        *)
(* <<a, b>> and compared by cross multiplication.  Timestamps              *)
(* (datetime.now()) are the value of a logical clock that ticks once per   *)
(* operation that reads the time.                                          *)
(***************************************************************************)
EXTENDS Integers, Sequences, FiniteSets, TLC

VARIABLES
    stored,     \* the persisted document of the user, or NoFile
    facade,     \* per facade instance: self.state and self.session_context
    agent,      \* an RLAgent object: whether it is built, and its self.state
    clock,      \* logical time: the last value datetime.now() returned
    lastOp,     \* the last operation performed and what it returned
    wr,         \* SpecConc: the two overlapping writers
    saveLog,    \* SpecConc: the documents written, in the order of the saves
    inodes,     \* SpecFile: the content of each file ever created
    dir,        \* SpecFile: which file each of the two paths names
    sv,         \* SpecFile: the save_state calls in progress
    observed,   \* SpecFile: what the last load_state read from the state path
    cmd,        \* SpecCmd: the command handle_command received last
    disk,       \* SpecLoad: what the state file contains, by JSON types
    call,       \* SpecLoad: the last call that loaded the state file
    stores,     \* SpecStore: per user, the Supabase row and the state file
    trip,       \* SpecStore: the last save_state or load_state call, and the
                \* last save of each user
    perf,       \* SpecAreas: state.chunk_performance, in the order of its keys
    areas,      \* SpecAreas: the last results of get_weak_areas and
                \* get_strong_areas
    book,       \* SpecKeys: state.chunk_performance under the keys of
                \* extract_chunk_id_from_reference, with the references
                \* answered under each key
    calc,       \* SpecCtx, SpecCount: the last call of _get_feedback_context,
                \* _calculate_item_count or a count adjustment, its arguments
                \* and what it computed
    bundle      \* SpecBundle: the three generator calls of a mixed bundle
                \* and the response built from them

vars == <<stored, facade, agent, clock, lastOp, wr, saveLog, inodes, dir, sv, observed,
          cmd, disk, call, stores, trip, perf, areas, book, calc, bundle>>
seqVars == <<stored, facade, agent, clock, lastOp>>
concVars == <<wr, saveLog>>
fileVars == <<inodes, dir, sv, observed>>
restVars == <<cmd, disk, call, stores, trip, perf, areas, book, calc, bundle>>

----------------------------------------------------------------------------
(* Bounds of the model and constants of the program *)

\* Spec stops the clock here: at most MaxClock timestamped commands per run
MaxClock == 2
\* SpecRec stops the clock here
MaxRecClock == 1
\* SpecCap stops the clock here
MaxCapClock == 2
\* SpecCmd stops the clock here
MaxCmdClock == 1
\* SpecAns stops the clock here: at most MaxAnsClock answers per run
MaxAnsClock == 5
\* SpecAreas: a user has at most MaxEntries chunks with answers
MaxEntries == 3
\* SpecKeys: at most MaxKeyAnswers answers per run
MaxKeyAnswers == 2
\* SpecCtx: a user has at most MaxEvents feedback events for quizzes
MaxEvents == 6
\* SpecCount: documents of up to MaxChunkCount chunks, base counts up to MaxBase
MaxChunkCount == 120
MaxBase == 25
\* SpecFile: a save writes its document in at most MaxChunks pieces, and each
\* saver calls save_state at most MaxSaves times
MaxChunks == 2
MaxSaves == 2
\* rl_agent.py:82-83: the history keeps its last 1000 entries
HistoryCap == 1000
\* analytics.py:64-65: a chunk keeps its last 10 questions
QuestionsCap == 10
\* analytics.py:59: a stored question keeps its first 200 characters
QuestionLen == 200
\* 1.0, 0.5 and 0.1 in tenths
One == 10
Half == 5
Floor == 1

modes == <<"quiz", "flashcard", "interactive">>
ModeSet == {modes[i] : i \in 1..Len(modes)}

Facades == {"A", "B"}
SessionOf(f) == IF f = "A" THEN "sA" ELSE "sB"

\* inputs of update_rl: mode strings as a caller may send them (a known mode,
\* a known mode in capitals, an unknown mode), and raw feedback values in
\* tenths (below 0, 0.5, 0.7, above 1)
ModeInputs == {"quiz", "FLASHCARD", "essay"}
FeedbackInputs == {-2, 5, 7, 12}
\* the update_rl inputs of SpecRec and SpecCap
FewModeInputs == {"quiz", "FLASHCARD"}
FewFeedbackInputs == {5, 12}
\* inputs of survey
Preferences == {"quiz", "i_dont_know"}
\* a question text is its content and its length in characters
NoQuestion == [text |-> "", len |-> 0]
LongQuestion == [text |-> "q", len |-> 250]
\* outcomes of one np.random.beta draw: a value in tenths, or an exception
Draws == {[ok |-> TRUE, v |-> 3], [ok |-> TRUE, v |-> 8], [ok |-> FALSE, v |-> 0]}
\* record_quiz_answer is called with (chunk_id, source_reference, question_text)
Answers == {<<"c1", "Chunk 1", LongQuestion>>, <<"", "Chunk 2", NoQuestion>>}

None == "None"
\* an optional timestamp: Never is Python's None, At(t) the time t
Never == << >>
At(t) == <<t>>

EmptyDict == [k \in {} |-> 0]

Max(a, b) == IF a >= b THEN a ELSE b
Min(a, b) == IF a <= b THEN a ELSE b

----------------------------------------------------------------------------
(* memory.py *)

\* the RLState every default branch of memory.py builds
DefaultState ==
    [ mode_alpha |-> [m \in ModeSet |-> One],
      mode_beta |-> [m \in ModeSet |-> One],
      mode_history |-> << >>,
      chunk_performance |-> EmptyDict,
      survey_completed |-> FALSE,
      initial_preference |-> None,
      total_sessions |-> 0,
      last_updated |-> Never ]

\* the state file of the user: absent, or holding one document
NoFile == [exists |-> FALSE, doc |-> DefaultState]
File(doc) == [exists |-> TRUE, doc |-> doc]

\* data.setdefault(field, {})[mode] = 1.0 for every mode that is missing
FillModes(d) ==
    [m \in (DOMAIN d) \cup ModeSet |-> IF m \in DOMAIN d THEN d[m] ELSE One]

\* load_state, file backend: defaults when the file is absent, else the
\* document with the missing modes filled in
LoadState(file) ==
    IF ~file.exists
    THEN DefaultState
    ELSE [file.doc EXCEPT !.mode_alpha = FillModes(@),
                          !.mode_beta = FillModes(@)]

\* mutant: an existing file is never replaced
SaveStateOnce(file, state, ok) == IF ok /\ ~file.exists THEN File(state) ELSE file
\* save_state, file backend: the whole document replaces the file when the
\* write succeeds; the file is left as it was when it fails
SaveState(file, state, ok) == IF ok THEN File(state) ELSE file

----------------------------------------------------------------------------
(* rl_agent.py *)

\* str.lower() on the mode strings a caller sends
Lower(m) == IF m = "FLASHCARD" THEN "flashcard" ELSE m

\* feedback = max(0.0, min(1.0, request.feedback))
Clamp(x) == Max(0, Min(One, x))

\* "if mode not in self.state.mode_alpha: self.state.mode_alpha[mode] = 1.0"
Ensure(d, m) == [k \in (DOMAIN d) \cup {m} |-> IF k \in DOMAIN d THEN d[k] ELSE One]

\* the Thompson parameters after one feedback: above 0.5 the feedback goes to
\* alpha, otherwise 1 - feedback goes to beta
CreditAlpha(a, feedback) == IF feedback > Half THEN a + feedback ELSE a
\* mutants: 0.5 counted as neither; the failure credit subtracted
CreditBetaStrict(b, feedback) == IF feedback >= Half THEN b ELSE b + (One - feedback)
CreditBetaMinus(b, feedback) == IF feedback > Half THEN b ELSE b - (One - feedback)
CreditBeta(b, feedback) == IF feedback > Half THEN b ELSE b + (One - feedback)

\* mutant: history[:1000], the oldest entries are the ones kept
TruncateHead(h) ==
    IF Len(h) > HistoryCap THEN SubSeq(h, 1, HistoryCap) ELSE h
\* "if len(history) > 1000: history = history[-1000:]"
Truncate(h) ==
    IF Len(h) > HistoryCap THEN SubSeq(h, Len(h) - HistoryCap + 1, Len(h)) ELSE h

Event(mode, feedback, now, sid) ==
    [mode |-> mode, feedback |-> feedback, timestamp |-> now, session_id |-> sid]

\* mutant: the mode is not checked against self.modes
UpdateFromFeedbackAny(state, rawMode, rawFeedback, sid, now) ==
    LET mode == Lower(rawMode)
        feedback == Clamp(rawFeedback)
    IN  [state EXCEPT
            !.mode_alpha = [Ensure(@, mode) EXCEPT ![mode] = CreditAlpha(@, feedback)],
            !.mode_beta = [Ensure(@, mode) EXCEPT ![mode] = CreditBeta(@, feedback)],
            !.mode_history = Truncate(Append(@, Event(mode, feedback, now, sid))),
            !.last_updated = At(now)]
\* update_from_feedback up to the save: the state the agent holds afterwards
UpdateFromFeedback(state, rawMode, rawFeedback, sid, now) ==
    LET mode == Lower(rawMode)
        feedback == Clamp(rawFeedback)
        alpha == Ensure(state.mode_alpha, mode)
        beta == Ensure(state.mode_beta, mode)
    IN  IF mode \notin ModeSet
        THEN state
        ELSE [state EXCEPT
                !.mode_alpha = [alpha EXCEPT ![mode] = CreditAlpha(@, feedback)],
                !.mode_beta = [beta EXCEPT ![mode] = CreditBeta(@, feedback)],
                !.mode_history =
                    Truncate(Append(@, Event(mode, feedback, now, sid))),
                !.last_updated = At(now)]

\* dict.get(mode, 1.0) followed by max(0.1, .)
Param(d, m) == Max(Floor, IF m \in DOMAIN d THEN d[m] ELSE One)

\* the sample of one mode: the draw, or 0.5 when the draw raised
SampleOf(draw) == IF draw.ok THEN draw.v ELSE Half

\* mutant: the odds alpha / beta
ProbabilityOdds(state, m) ==
    <<Param(state.mode_alpha, m), Param(state.mode_beta, m)>>
\* prob = alpha / (alpha + beta), kept as <<numerator, denominator>>
Probability(state, m) ==
    LET a == Param(state.mode_alpha, m)
        b == Param(state.mode_beta, m)
    IN  IF a + b > 0 THEN <<a, a + b>> ELSE <<Half, One>>

\* mutant: the last of several greatest elements wins
RECURSIVE ArgMaxLast(_, _, _)
ArgMaxLast(samples, i, best) ==
    IF i > Len(modes)
    THEN best
    ELSE ArgMaxLast(samples, i + 1,
                    IF samples[modes[i]] >= samples[best] THEN modes[i] ELSE best)
\* max(samples, key=samples.get): the dict is filled in the order of
\* self.modes and max keeps the first of several greatest elements
RECURSIVE ArgMaxFrom(_, _, _)
ArgMaxFrom(samples, i, best) ==
    IF i > Len(modes)
    THEN best
    ELSE ArgMaxFrom(samples, i + 1,
                    IF samples[modes[i]] > samples[best] THEN modes[i] ELSE best)
ArgMax(samples) == ArgMaxFrom(samples, 2, modes[1])

\* sorted(samples.values(), reverse=True)
RECURSIVE InsertDesc(_, _)
InsertDesc(x, s) ==
    IF s = << >> THEN <<x>>
    ELSE IF x >= Head(s) THEN <<x>> \o s
    ELSE <<Head(s)>> \o InsertDesc(x, Tail(s))
RECURSIVE SortedFrom(_, _)
SortedFrom(samples, i) ==
    IF i > Len(modes) THEN << >>
    ELSE InsertDesc(samples[modes[i]], SortedFrom(samples, i + 1))
SortedSamples(samples) == SortedFrom(samples, 1)

\* confidence = min(1.0, max(0.0, top - second))
Confidence(samples) ==
    LET s == SortedSamples(samples)
    IN  IF Len(s) >= 2 THEN Min(One, Max(0, s[1] - s[2])) ELSE One

\* recommend_mode after the reload: the RLRecommendation it returns
RecommendMode(state, draws) ==
    LET samples == [m \in ModeSet |-> SampleOf(draws[m])]
    IN  [ recommended_mode |-> ArgMax(samples),
          probabilities |-> [m \in ModeSet |-> Probability(state, m)],
          confidence |-> Confidence(samples),
          samples |-> samples ]

----------------------------------------------------------------------------
(* analytics.py *)

\* mutant: a new entry starts with one attempt
NewChunkCounted(source_reference) ==
    [ correct |-> 0, incorrect |-> 0, attempts |-> 1, last_attempt |-> Never,
      source_reference |-> source_reference, questions |-> << >> ]
\* the entry record_quiz_answer creates for a key it has not seen
NewChunk(source_reference) ==
    [ correct |-> 0, incorrect |-> 0, attempts |-> 0, last_attempt |-> Never,
      source_reference |-> source_reference, questions |-> << >> ]

\* question_text[:200]
Prefix(q) == [q EXCEPT !.len = Min(@, QuestionLen)]

\* "if len(questions) > 10: questions = questions[-10:]"
TruncateQuestions(qs) ==
    IF Len(qs) > QuestionsCap
    THEN SubSeq(qs, Len(qs) - QuestionsCap + 1, Len(qs))
    ELSE qs

\* record_quiz_answer between its load and its save
RecordQuizAnswer(state, chunk_id, source_reference, is_correct, question_text, now) ==
    LET key == IF chunk_id # "" THEN chunk_id ELSE source_reference
        cp == state.chunk_performance
        cp0 == [k \in (DOMAIN cp) \cup {key} |->
                    IF k \in DOMAIN cp THEN cp[k] ELSE NewChunk(source_reference)]
        old == cp0[key]
        new == [old EXCEPT
                  !.attempts = @ + 1,
                  !.correct = IF is_correct THEN @ + 1 ELSE @,
                  !.incorrect = IF is_correct THEN @ ELSE @ + 1,
                  !.last_attempt = At(now),
                  !.questions =
                      IF question_text.text # ""
                      THEN TruncateQuestions(Append(@,
                              [ question |-> Prefix(question_text),
                                correct |-> is_correct,
                                timestamp |-> now ]))
                      ELSE @]
    IN  [state EXCEPT !.chunk_performance = [cp0 EXCEPT ![key] = new]]

----------------------------------------------------------------------------
(* orchestrator.py: the facade.  Every action is one whole command. *)

\* mutant: no reload, the agent keeps the state it holds
ReloadedHeld(file, held) == held
\* the state recommend_mode works on: "self.state = load_state(self.username)"
\* replaces the state the agent holds since it was built
Reloaded(file, held) == LoadState(file)

\* the state _handle_survey mutates and saves: self.state, as the facade
\* holds it since its construction, its last update_rl or its last reset
SurveyBase(file, held) == held

\* _handle_survey's four assignments
SurveyState(state, preference, now) ==
    [state EXCEPT !.survey_completed = TRUE,
                  !.initial_preference = preference,
                  !.total_sessions = @ + 1,
                  !.last_updated = At(now)]

\* ManagerAgent(username): an empty session context and the loaded state
NewFacade(state) == [state |-> state, session_context |-> EmptyDict]

\* the except branch of _handle_recommend
DefaultRecommendation ==
    [ recommended_mode |-> "quiz",
      probabilities |-> [m \in ModeSet |-> <<Half, One>>],
      confidence |-> 0,
      samples |-> [m \in ModeSet |-> 0] ]

NoDraws == [m \in ModeSet |-> [ok |-> FALSE, v |-> 0]]

\* "except Exception" in handle_command catches every exception a handler
\* raises
Exceptions == {"ValueError", "AttributeError", "TypeError"}
\* mutant: only ValueError is caught
CaughtValueError(exc) == exc = "ValueError"
Caught(exc) == exc \in Exceptions

\* llm_agent.generate was not called
NoRequest ==
    [ sent |-> FALSE, content_type |-> None, chunks |-> << >>, num_items |-> -1,
      feedback_context |-> EmptyDict ]

\* the params of a generate command, as lastOp keeps them
NoParams == [content_type |-> None, chunks |-> << >>, extracted |-> FALSE,
             extracted_chunks |-> << >>, num_items |-> -1]

\* what an operation leaves in lastOp; the fields an operation does not use
\* keep these values
Op(name, f) ==
    [ op |-> name, facade |-> f, success |-> TRUE,
      mode |-> None, raw |-> 0, feedback |-> 0, known |-> FALSE, saved |-> FALSE,
      raised |-> FALSE, rec |-> DefaultRecommendation, key |-> None,
      after |-> DefaultState, draws |-> NoDraws, stale |-> FALSE,
      error |-> None, escaped |-> FALSE, request |-> NoRequest,
      params |-> NoParams ]

\* update_rl: a new RLAgent loads the state, applies the feedback and saves;
\* the facade then reloads its own copy.  lastOp.after is the state that
\* agent holds when update_from_feedback returns.
UpdateRl(f, rawMode, rawFeedback, ok) ==
    LET loaded == LoadState(stored)
        known == Lower(rawMode) \in ModeSet
        now == clock + 1
        after == UpdateFromFeedback(loaded, rawMode, rawFeedback, SessionOf(f), now)
        file == IF known THEN SaveState(stored, after, ok) ELSE stored
    IN  /\ stored' = file
        /\ facade' = [facade EXCEPT ![f].state = LoadState(file)]
        /\ clock' = IF known THEN now ELSE clock
        /\ lastOp' = [Op("update_rl", f) EXCEPT
                        !.mode = Lower(rawMode),
                        !.raw = rawFeedback,
                        !.feedback = Clamp(rawFeedback),
                        !.known = known,
                        !.saved = known /\ ok,
                        !.after = after]
        /\ UNCHANGED agent

\* recommend: a new RLAgent loads the state, reloads it and samples; when
\* anything raises the facade answers with its default recommendation
Recommend(f, draws, raises) ==
    LET built == LoadState(stored)
        state == Reloaded(stored, built)
    IN  /\ lastOp' = [Op("recommend", f) EXCEPT
                        !.raised = raises,
                        !.draws = IF raises THEN NoDraws ELSE draws,
                        !.rec = IF raises THEN DefaultRecommendation
                                ELSE RecommendMode(state, draws)]
        /\ UNCHANGED <<stored, facade, agent, clock>>

\* RLAgent(username): the constructor loads the state
NewAgent ==
    /\ agent' = [built |-> TRUE, state |-> LoadState(stored)]
    /\ lastOp' = Op("new_agent", None)
    /\ UNCHANGED <<stored, facade, clock>>

\* recommend_mode on an RLAgent that was built earlier.  lastOp.stale tells
\* whether the state was written since the agent last loaded it.
AgentRecommend(draws) ==
    LET state == Reloaded(stored, agent.state)
    IN  /\ agent.built
        /\ agent' = [agent EXCEPT !.state = state]
        /\ lastOp' = [Op("agent_recommend", None) EXCEPT
                        !.draws = draws,
                        !.stale = (agent.state # LoadState(stored)),
                        !.rec = RecommendMode(state, draws)]
        /\ UNCHANGED <<stored, facade, clock>>

\* survey: mutates the facade's copy and saves it
Survey(f, preference, ok) ==
    LET now == clock + 1
        state == SurveyState(SurveyBase(stored, facade[f].state), preference, now)
    IN  /\ facade' = [facade EXCEPT ![f].state = state]
        /\ stored' = SaveState(stored, state, ok)
        /\ clock' = now
        /\ lastOp' = [Op("survey", f) EXCEPT !.saved = ok]
        /\ UNCHANGED agent

\* reset_preferences: reset_state saves the defaults and returns them, and
\* the session context is cleared
ResetPreferences(f, ok) ==
    /\ facade' = [facade EXCEPT ![f] = NewFacade(DefaultState)]
    /\ stored' = SaveState(stored, DefaultState, ok)
    /\ lastOp' = [Op("reset_preferences", f) EXCEPT !.saved = ok]
    /\ UNCHANGED <<agent, clock>>

\* record_quiz_answer, called by the UI beside the facade.  lastOp.after is
\* the state the function holds when it returns.
RecordAnswer(answer, is_correct, ok) ==
    LET now == clock + 1
        state == RecordQuizAnswer(LoadState(stored), answer[1], answer[2],
                                  is_correct, answer[3], now)
    IN  /\ stored' = SaveState(stored, state, ok)
        /\ clock' = now
        /\ lastOp' = [Op("record_answer", None) EXCEPT
                        !.saved = ok,
                        !.after = state,
                        !.key = IF answer[1] # "" THEN answer[1] ELSE answer[2]]
        /\ UNCHANGED <<facade, agent>>

----------------------------------------------------------------------------
(* orchestrator.py: extract, generate and the dispatch of handle_command *)

ContentTypes == {"quiz", "flashcard", "interactive", "mixed"}
\* "no num_items in the params"
NoNumber == -1

\* what handle_command answers when the handler raised exc (None: it returned)
Answer(op, exc) ==
    IF exc = None THEN op
    ELSE [op EXCEPT !.success = FALSE, !.error = exc, !.escaped = ~Caught(exc)]

\* outcomes of NLPAgent.extract, which catches its own exceptions
ExtractOutcomes ==
    { [success |-> TRUE, chunks |-> <<"text", " ">>],
      [success |-> TRUE, chunks |-> << >>],
      [success |-> FALSE, chunks |-> << >>] }

\* self.session_context[session_id] = {"chunks": ..., "summary": ...}
Store(ctx, sid, chunks) ==
    [k \in (DOMAIN ctx) \cup {sid} |-> IF k = sid THEN [chunks |-> chunks] ELSE ctx[k]]

\* self.session_context.get(session_id, {}).get("chunks", [])
ChunksOfSession(ctx, sid) == IF sid \in DOMAIN ctx THEN ctx[sid].chunks ELSE << >>

\* extract: the chunks go to the session context when the command has a
\* session id, whether or not the extraction succeeded
Extract(f, sid, outcome) ==
    /\ facade' = [facade EXCEPT ![f].session_context =
                    IF sid # None THEN Store(@, sid, outcome.chunks) ELSE @]
    /\ lastOp' = [Op("extract", f) EXCEPT
                    !.success = outcome.success,
                    !.error = IF outcome.success THEN None ELSE "extraction"]
    /\ UNCHANGED <<stored, agent, clock>>

\* "chunk and chunk.strip()"
NonEmpty(chunk) == chunk \notin {"", " "}

\* mutant: the chunks of the first source that has any, blank ones included
ResolveChunksUnfiltered(ctx, chunks, sid, extracted) ==
    LET fromSession == IF chunks = << >> /\ sid # None
                       THEN ChunksOfSession(ctx, sid) ELSE chunks
    IN  IF fromSession = << >> /\ extracted.present
        THEN extracted.chunks ELSE fromSession
\* the chunks generate works on, after the filter of the empty ones
ResolveChunks(ctx, chunks, sid, extracted) ==
    LET fromSession == IF chunks = << >> /\ sid # None
                       THEN ChunksOfSession(ctx, sid) ELSE chunks
        fromParams == IF fromSession = << >> /\ extracted.present
                      THEN extracted.chunks ELSE fromSession
    IN  SelectSeq(fromParams, NonEmpty)

\* _calculate_item_count
CalculateItemCount(content_type, num_chunks) ==
    IF content_type = "quiz"
    THEN IF num_chunks >= 100 THEN Min(20, Max(10, num_chunks \div 10))
         ELSE IF num_chunks >= 50 THEN Min(15, Max(8, num_chunks \div 8))
         ELSE Min(10, Max(3, num_chunks \div 2))
    ELSE IF content_type = "flashcard"
    THEN IF num_chunks >= 100 THEN Min(25, Max(15, num_chunks \div 8))
         ELSE Min(15, Max(5, num_chunks))
    ELSE IF content_type = "interactive"
    THEN IF num_chunks >= 100 THEN Min(8, Max(5, num_chunks \div 30))
         ELSE Min(5, Max(2, num_chunks \div 3))
    ELSE 5

\* the dictionary _get_feedback_context starts from and returns when the
\* history has no entry of the content type
NeutralContext ==
    [ is_none |-> FALSE, has_feedback |-> FALSE, average_feedback |-> <<Half, 1>>,
      feedback_count |-> 0, positive_rate |-> <<Half, 1>>,
      adaptation_instructions |-> << >>, adaptive_count |-> NoNumber ]
\* Python's None where a context is expected
NoContext == [NeutralContext EXCEPT !.is_none = TRUE]

\* mutant: entries of any mode count as feedback for the content type
GetFeedbackContextAnyMode(state, content_type) ==
    IF state.mode_history = << >> THEN NeutralContext ELSE NoContext
\* _get_feedback_context: with entries of the content type in the history the
\* function fills its dictionary, logs it and ends without a return statement
GetFeedbackContext(state, content_type) ==
    IF \A i \in DOMAIN state.mode_history : state.mode_history[i].mode # content_type
    THEN NeutralContext
    ELSE NoContext

\* base * (0.4 + avg * 0.4) and base * (1.2 + (avg - 0.7)), truncated by int();
\* avg is the quotient <<sum, n>> of feedback values in tenths
\* mutant: no floor at 2
ReducedUnfloored(base_count, avg) ==
    (base_count * (40 * avg[2] + 4 * avg[1])) \div (100 * avg[2])
Reduced(base_count, avg) ==
    Max(2, (base_count * (40 * avg[2] + 4 * avg[1])) \div (100 * avg[2]))
Increased(base_count, avg) ==
    Min((base_count * (2 * avg[1] + 10 * avg[2])) \div (20 * avg[2]), base_count * 2)

\* _calculate_adaptive_count, for a context that is a dictionary
CalculateAdaptiveCount(base_count, fc) ==
    IF ~fc.has_feedback THEN base_count
    ELSE IF 10 * fc.average_feedback[1] < 4 * One * fc.average_feedback[2]
    THEN Reduced(base_count, fc.average_feedback)
    ELSE IF 10 * fc.average_feedback[1] > 7 * One * fc.average_feedback[2]
    THEN Increased(base_count, fc.average_feedback)
    ELSE base_count

\* mutant: the base count is taken as it is
InlineCountUnadjusted(base_count, fc) == base_count
\* the adjustment _handle_generate makes itself for a single content type
\* (orchestrator.py:195-210), for a context that is a dictionary
InlineCount(base_count, fc) ==
    IF fc.has_feedback
    THEN IF 10 * fc.average_feedback[1] < 4 * One * fc.average_feedback[2]
         THEN Max(2, (base_count * (40 * fc.average_feedback[2] + 4 * fc.average_feedback[1]))
                        \div (100 * fc.average_feedback[2]))
         ELSE IF 10 * fc.average_feedback[1] > 7 * One * fc.average_feedback[2]
         THEN Min((base_count * (2 * fc.average_feedback[1] + 10 * fc.average_feedback[2]))
                        \div (20 * fc.average_feedback[2]),
                  base_count * 2)
         ELSE base_count
    ELSE base_count

\* the feedback values of the entries of the content type, in their order
RECURSIVE FeedbacksOf(_, _)
FeedbacksOf(history, content_type) ==
    IF history = << >> THEN << >>
    ELSE IF Head(history).mode = content_type
    THEN <<Head(history).feedback>> \o FeedbacksOf(Tail(history), content_type)
    ELSE FeedbacksOf(Tail(history), content_type)
RECURSIVE SumOf(_)
SumOf(values) == IF values = << >> THEN 0 ELSE Head(values) + SumOf(Tail(values))

\* feedbacks[-5:]
RecentLen == 5
Recent(feedbacks) ==
    SubSeq(feedbacks, Max(1, Len(feedbacks) - RecentLen + 1), Len(feedbacks))

\* the branch taken on recent_avg: > 0.7, < 0.4, or neither
Directive(recent) ==
    IF 10 * SumOf(recent) > 7 * One * Len(recent) THEN "maintain"
    ELSE IF 10 * SumOf(recent) < 4 * One * Len(recent) THEN "simplify"
    ELSE "balanced"
\* "len(recent_feedbacks) > 1" and variance > 0.1, the variance being the mean
\* of the squares of (f - recent_avg)
Varies(recent) ==
    LET n == Len(recent)
        squares == [i \in 1..n |-> (n * recent[i] - SumOf(recent)) * (n * recent[i] - SumOf(recent))]
    IN  n > 1 /\ SumOf(squares) > 10 * n * n * n

\* the dictionary _get_feedback_context has filled when it reaches its last
\* line, for a history with entries of the content type
BuildFeedbackContext(state, content_type) ==
    LET feedbacks == FeedbacksOf(state.mode_history, content_type)
        positive == SelectSeq(feedbacks, LAMBDA f : f > Half)
        recent == Recent(feedbacks)
    IN  [ NeutralContext EXCEPT
            !.has_feedback = TRUE,
            !.feedback_count = Len(feedbacks),
            !.average_feedback = <<SumOf(feedbacks), Len(feedbacks)>>,
            !.positive_rate = <<One * Len(positive), Len(feedbacks)>>,
            !.adaptation_instructions =
                <<Directive(recent)>> \o (IF Varies(recent) THEN <<"vary">> ELSE << >>) ]

\* no function was called
NoCalc ==
    [ fn |-> None, history |-> << >>, content_type |-> None, num_chunks |-> 0,
      base_count |-> 0, context |-> NeutralContext, returned |-> NeutralContext,
      count |-> 0, inline |-> 0 ]

\* a call of _get_feedback_context for a user with the history calc.history:
\* context is the dictionary of the function when it ends, returned what the
\* caller receives
FeedbackContextCall(content_type) ==
    LET state == [DefaultState EXCEPT !.mode_history = calc.history]
        returned == GetFeedbackContext(state, content_type)
    IN  calc' = [NoCalc EXCEPT
                    !.fn = "_get_feedback_context",
                    !.history = calc.history,
                    !.content_type = content_type,
                    !.context = IF returned.is_none
                                THEN BuildFeedbackContext(state, content_type)
                                ELSE returned,
                    !.returned = returned]

\* _calculate_adaptive_count(base_count, fc, content_type) on a dictionary
AdaptiveCountCall(base_count, fc, content_type) ==
    calc' = [NoCalc EXCEPT
                !.fn = "_calculate_adaptive_count",
                !.history = calc.history,
                !.returned = calc.returned,
                !.content_type = content_type,
                !.base_count = base_count,
                !.context = fc,
                !.count = CalculateAdaptiveCount(base_count, fc),
                !.inline = InlineCount(base_count, fc)]

\* _calculate_item_count(content_type, num_chunks)
ItemCountCall(content_type, num_chunks) ==
    calc' = [NoCalc EXCEPT
                !.fn = "_calculate_item_count",
                !.content_type = content_type,
                !.num_chunks = num_chunks,
                !.count = CalculateItemCount(content_type, num_chunks)]

\* generate.  An unknown content type raises ValueError at ContentType(...);
\* without chunks the handler answers with a failure before it reloads the
\* state; llmOk is the outcome of llm_agent.generate, which catches its own
\* exceptions.
Generate(f, content_type, chunks, sid, extracted, num_items, llmOk) ==
    LET ctx == facade[f].session_context
        resolved == ResolveChunks(ctx, chunks, sid, extracted)
        state == LoadState(stored)
        \* one context for the content type, or one per mode for a mixed bundle
        plain == [m \in (IF content_type = "mixed" THEN ModeSet ELSE {content_type})
                    |-> GetFeedbackContext(state, m)]
        n == Len(resolved)
        fcs == IF content_type = "mixed"
               THEN [m \in ModeSet |->
                       IF plain[m].is_none THEN plain[m]
                       ELSE [plain[m] EXCEPT !.adaptive_count =
                               CalculateAdaptiveCount(CalculateItemCount(m, n), plain[m])]]
               ELSE plain
        \* the first use of a context that is None raises AttributeError
        raises == IF content_type = "mixed"
                  THEN \E m \in ModeSet : plain[m].is_none
                  ELSE num_items = NoNumber /\ plain[content_type].is_none
        op == [Op("generate", f) EXCEPT
                 !.params = [content_type |-> content_type, chunks |-> chunks,
                             extracted |-> extracted.present,
                             extracted_chunks |-> extracted.chunks,
                             num_items |-> num_items]]
        count == IF content_type = "mixed" THEN NoNumber
                 ELSE IF num_items # NoNumber THEN num_items
                 ELSE InlineCount(CalculateItemCount(content_type, n), plain[content_type])
    IN  IF content_type \notin ContentTypes
        THEN /\ lastOp' = Answer(op, "ValueError")
             /\ UNCHANGED <<stored, facade, agent, clock>>
        ELSE IF resolved = << >>
        THEN /\ lastOp' = [op EXCEPT
                             !.success = FALSE, !.error = "no_chunks"]
             /\ UNCHANGED <<stored, facade, agent, clock>>
        ELSE /\ facade' = [facade EXCEPT ![f].state = state]
             /\ lastOp' =
                  IF raises
                  THEN Answer(op, "AttributeError")
                  ELSE [op EXCEPT
                          !.success = llmOk,
                          !.error = IF llmOk THEN None ELSE "generation",
                          !.request =
                              [ sent |-> TRUE, content_type |-> content_type,
                                chunks |-> resolved, num_items |-> count,
                                feedback_context |-> fcs ]]
             /\ UNCHANGED <<stored, agent, clock>>

\* update_rl with params RLUpdateRequest or update_from_feedback rejects
\* before anything is changed: no mode or no feedback (TypeError), a mode that
\* is no string (AttributeError), a feedback that is no number (TypeError).
\* _handle_update_rl catches the exception itself.
RejectedParams ==
    { [why |-> "no_mode", exc |-> "TypeError"],
      [why |-> "mode_not_a_string", exc |-> "AttributeError"],
      [why |-> "feedback_not_a_number", exc |-> "TypeError"] }
UpdateRlRejected(f, rejected) ==
    /\ lastOp' = [Op("update_rl", f) EXCEPT
                    !.success = FALSE, !.error = rejected.exc, !.mode = rejected.why]
    /\ UNCHANGED <<stored, facade, agent, clock>>

\* the else branch of handle_command
UnknownAction(f, action) ==
    /\ lastOp' = [Op("none", f) EXCEPT !.success = FALSE, !.error = "unknown_action"]
    /\ UNCHANGED <<stored, facade, agent, clock>>

\* params that are a string: command.params.copy() raises AttributeError
\* before the dispatch
BadParams(f) ==
    /\ lastOp' = Answer(Op("none", f), "AttributeError")
    /\ UNCHANGED <<stored, facade, agent, clock>>

\* the action strings handle_command knows, and the ones a caller may send
Actions == {"extract", "generate", "update_rl", "recommend", "survey",
            "reset_preferences"}
ActionInputs == Actions \cup {"delete"}
ParamKinds == {"dict", "str"}
\* the session id of a command: the one of the browser session, or none
SessionInputs(f) == {SessionOf(f), None}

\* params of generate: content_type, chunks, extracted_chunks, num_items
NotExtracted == [present |-> FALSE, chunks |-> << >>]
TenChunks == [i \in 1..10 |-> "text"]
GenerateInputs ==
    { <<"quiz", << >>, NotExtracted, NoNumber>>,
      <<"quiz", <<" ">>, NotExtracted, NoNumber>>,
      <<"quiz", <<"text", " ">>, NotExtracted, NoNumber>>,
      <<"quiz", <<"text", " ">>, NotExtracted, 4>>,
      <<"quiz", << >>, [present |-> TRUE, chunks |-> <<"text">>], 4>>,
      <<"flashcard", TenChunks, NotExtracted, NoNumber>>,
      <<"mixed", << >>, NotExtracted, NoNumber>>,
      <<"mixed", <<"text", " ">>, NotExtracted, NoNumber>>,
      <<"essay", <<"text", " ">>, NotExtracted, NoNumber>> }
OneDraw == [m \in ModeSet |-> [ok |-> TRUE, v |-> 3]]

\* handle_command: the if/elif chain over command.action inside try/except
HandleCommand(f, action, sid, kind) ==
    /\ cmd' = [action |-> action, session_id |-> sid, kind |-> kind]
    /\ IF kind # "dict" THEN BadParams(f)
       ELSE IF action = "extract"
       THEN \E o \in ExtractOutcomes : Extract(f, sid, o)
       ELSE IF action = "generate"
       THEN \E g \in GenerateInputs, llmOk \in BOOLEAN :
                Generate(f, g[1], g[2], sid, g[3], g[4], llmOk)
       ELSE IF action = "update_rl"
       THEN \/ \E m \in ModeInputs, v \in FewFeedbackInputs, ok \in BOOLEAN :
                clock < MaxCmdClock /\ UpdateRl(f, m, v, ok)
            \/ \E r \in RejectedParams : UpdateRlRejected(f, r)
       ELSE IF action = "recommend"
       THEN \E raises \in BOOLEAN : Recommend(f, OneDraw, raises)
       ELSE IF action = "survey"
       THEN \E p \in Preferences, ok \in BOOLEAN :
                clock < MaxCmdClock /\ Survey(f, p, ok)
       ELSE IF action = "reset_preferences"
       THEN \E ok \in BOOLEAN : ResetPreferences(f, ok)
       ELSE UnknownAction(f, action)

----------------------------------------------------------------------------
(* memory.py: load_state on a state file of any content.  A file is described
   by the JSON type of what it holds (kind) and, for an object, by the JSON
   type of each field (f); "absent" is a field the object does not have,
   "modes_list" a list that contains the three mode names, extra a key that is
   no field of RLState. *)

\* the types of the fields as asdict(state) of a state the program built
\* writes them, and as every default branch of load_state builds them
DefaultTags ==
    [ mode_alpha |-> "dict", mode_history |-> "list", chunk_performance |-> "dict",
      survey_completed |-> "bool", extra |-> "absent" ]
AbsentDoc == [kind |-> "absent", f |-> DefaultTags]
ObjectDoc(f) == [kind |-> "object", f |-> f]

\* "except (json.JSONDecodeError, KeyError, TypeError)" of load_state
CaughtByLoad(exc) == exc \in {"JSONDecodeError", "KeyError", "TypeError"}

\* "if mode not in data.get(field, {}): data.setdefault(field, {})[mode] = 1.0"
\* on a field of the given type: the exception it raises, or None
FillError(tag) ==
    IF tag \in {"absent", "dict", "modes_list"} THEN None ELSE "TypeError"

\* RLState(**data): mode_history has no default, an unknown key is rejected
ConstructError(f) ==
    IF f.mode_history = "absent" \/ f.extra # "absent" THEN "TypeError" ELSE None

\* the exception the try block of load_state raises on the document, or None
LoadError(doc) ==
    IF doc.kind = "text" THEN "JSONDecodeError"
    ELSE IF doc.kind # "object" THEN "AttributeError"
    ELSE IF FillError(doc.f.mode_alpha) # None THEN FillError(doc.f.mode_alpha)
    ELSE ConstructError(doc.f)

\* the types of the RLState built from an object that raised nothing: the
\* missing dictionaries are created, a missing optional field gets its default
Filled(f) ==
    [f EXCEPT !.mode_alpha = IF @ = "absent" THEN "dict" ELSE @,
              !.chunk_performance = IF @ = "absent" THEN "dict" ELSE @,
              !.survey_completed = IF @ = "absent" THEN "bool" ELSE @]

\* load_state, file branch: exc is the exception that leaves load_state (or
\* None), content tells whether the state returned is the defaults or the
\* document, tags are the types of its fields
LoadDocument(doc) ==
    LET exc == LoadError(doc)
    IN  IF doc.kind = "absent"
        THEN [exc |-> None, content |-> "defaults", tags |-> DefaultTags]
        ELSE IF exc = None
        THEN [exc |-> None, content |-> "document", tags |-> Filled(doc.f)]
        ELSE IF CaughtByLoad(exc)
        THEN [exc |-> None, content |-> "defaults", tags |-> DefaultTags]
        ELSE [exc |-> exc, content |-> "none", tags |-> DefaultTags]

NoCall ==
    [ fn |-> None, doc |-> AbsentDoc, exc |-> None, escaped |-> FALSE,
      content |-> "none", success |-> TRUE ]

\* a caller calls load_state(username)
LoadStateCall ==
    LET r == LoadDocument(disk)
    IN  /\ call' = [NoCall EXCEPT !.fn = "load_state", !.doc = disk, !.exc = r.exc,
                                  !.escaped = (r.exc # None), !.content = r.content,
                                  !.success = (r.exc = None)]
        /\ UNCHANGED disk

\* ManagerAgent(username): load_state is called outside any try
NewManager ==
    LET r == LoadDocument(disk)
    IN  /\ call' = [NoCall EXCEPT !.fn = "ManagerAgent", !.doc = disk, !.exc = r.exc,
                                  !.escaped = (r.exc # None), !.content = r.content,
                                  !.success = (r.exc = None)]
        /\ UNCHANGED disk

\* "if key not in state.chunk_performance: state.chunk_performance[key] = ..."
\* on a chunk_performance of the given type (None was replaced by {} before)
ChunkError(tag) == IF tag \in {"dict", "null"} THEN None ELSE "TypeError"

\* record_quiz_answer: no try around the load, the update or the save
RecordAnswerCall(ok) ==
    LET r == LoadDocument(disk)
        exc == IF r.exc # None THEN r.exc ELSE ChunkError(r.tags.chunk_performance)
    IN  /\ call' = [NoCall EXCEPT !.fn = "record_quiz_answer", !.doc = disk,
                                  !.exc = exc, !.escaped = (exc # None),
                                  !.content = r.content, !.success = (exc = None)]
        /\ disk' = IF exc = None /\ ok
                   THEN ObjectDoc([r.tags EXCEPT !.chunk_performance = "dict"])
                   ELSE disk

\* "self.state.mode_alpha[mode] += feedback", which runs for a feedback above
\* 0.5 (liked), and "mode_history.append(...)" on fields of the given types
UpdateError(tags, liked) ==
    IF liked /\ tags.mode_alpha # "dict" THEN "TypeError"
    ELSE IF tags.mode_history # "list" THEN "AttributeError"
    ELSE None

\* the update_rl command: RLAgent.__init__ falls back to the defaults when
\* load_state raises, _handle_update_rl catches what the update raises
UpdateRlCall(ok, liked) ==
    LET r == LoadDocument(disk)
        tags == IF r.exc # None THEN DefaultTags ELSE r.tags
        exc == UpdateError(tags, liked)
    IN  /\ call' = [NoCall EXCEPT !.fn = "update_rl", !.doc = disk, !.exc = exc,
                                  !.escaped = (exc # None /\ ~Caught(exc)),
                                  !.content = IF r.exc # None THEN "defaults"
                                              ELSE r.content,
                                  !.success = (exc = None)]
        /\ disk' = IF exc = None /\ ok THEN ObjectDoc(tags) ELSE disk

\* the generate command with chunks: the reload of line 150 is caught by
\* handle_command only
GenerateCall ==
    LET r == LoadDocument(disk)
    IN  /\ call' = [NoCall EXCEPT !.fn = "generate", !.doc = disk, !.exc = r.exc,
                                  !.escaped = (r.exc # None /\ ~Caught(r.exc)),
                                  !.content = r.content]
        /\ UNCHANGED disk

\* the contents of the state file the model starts from
AlphaTags == {"absent", "dict", "list", "int", "null", "modes_list"}
HistoryTags == {"absent", "list", "int"}
ChunkTags == {"absent", "dict", "null", "int"}
SurveyTags == {"absent", "bool", "str"}
ExtraTags == {"absent", "str"}
Docs ==
    {[kind |-> k, f |-> DefaultTags] : k \in {"absent", "text", "list", "null"}}
    \cup { ObjectDoc([ mode_alpha |-> a, mode_history |-> h,
                       chunk_performance |-> c, survey_completed |-> sc,
                       extra |-> e ]) :
            a \in AlphaTags, h \in HistoryTags, c \in ChunkTags, sc \in SurveyTags,
            e \in ExtraTags }

----------------------------------------------------------------------------
(* memory.py: save_state and load_state over their chain of backends.  With
   a username Supabase is tried first; "from .database import ..." raises
   ImportError (the package has no database module), which both functions
   catch; the JSON file comes last.  Without a username only the file is
   used.  stores.row[u] is the rl_state row of user u, stores.file[u] the
   state file of u (u = None: the global file). *)

Usernames == {"u", None}
EmptyStores == [row |-> [u \in Usernames |-> NoFile], file |-> [u \in Usernames |-> NoFile]]

\* mutant: the row keeps the state it had
ToRowKept(old, state) == IF old.exists THEN old ELSE File(state)
\* save_rl_state_supabase: the fields of the state become the row of the user
\* (update when the row exists, insert when it does not)
ToRow(old, state) == File(state)

\* load_rl_state_supabase followed by the fill of load_state: the mode
\* dictionaries get the modes they lack
FromRow(row) == LoadState(row)

\* save_state(state, username): up tells whether Supabase answers this call,
\* fileOk whether the file can be written.  The stores afterwards and the
\* value returned.
SaveStateChain(st, username, state, up, fileOk) ==
    IF username # None /\ up
    THEN [ stores |-> [st EXCEPT !.row[username] = ToRow(@, state)],
           returned |-> TRUE ]
    ELSE [ stores |-> [st EXCEPT !.file[username] = SaveState(@, state, fileOk)],
           returned |-> fileOk ]

\* load_state(username): the row when Supabase answers and has one ("if
\* supabase_state:"), else the file
LoadStateChain(st, username, up) ==
    IF username # None /\ up /\ st.row[username].exists
    THEN FromRow(st.row[username])
    ELSE LoadState(st.file[username])

NoSave == [returned |-> FALSE, state |-> DefaultState, up |-> FALSE]
NoTrip ==
    [ did |-> None, username |-> None, up |-> FALSE, loaded |-> DefaultState,
      last |-> [u \in Usernames |-> NoSave],
      good |-> [u \in Usernames |-> NoSave] ]

SaveStateCall(username, state, up, fileOk) ==
    LET r == SaveStateChain(stores, username, state, up, fileOk)
    IN  /\ stores' = r.stores
        /\ trip' = [trip EXCEPT
                      !.did = "save_state", !.username = username, !.up = up,
                      !.last[username] =
                          [returned |-> r.returned, state |-> state, up |-> up],
                      !.good[username] =
                          IF r.returned
                          THEN [returned |-> TRUE, state |-> state, up |-> up]
                          ELSE @]

LoadStateAgain(username, up) ==
    /\ trip' = [trip EXCEPT
                  !.did = "load_state", !.username = username, !.up = up,
                  !.loaded = LoadStateChain(stores, username, up)]
    /\ UNCHANGED stores

----------------------------------------------------------------------------
(* analytics.py: get_all_chunk_performance, get_weak_areas, get_strong_areas.
   A dict is kept as the sequence of its items in the order of the keys, the
   order Python iterates and sorts in.  An accuracy correct / attempts * 100
   is the quotient <<correct * 100, attempts>>. *)

\* accuracy = (correct / attempts * 100) if attempts > 0 else 0.0
Accuracy(correct, attempts) == IF attempts > 0 THEN <<correct * 100, attempts>> ELSE <<0, 1>>

\* quotient q against the number x
Below(q, x) == q[1] < x * q[2]
\* quotient a against quotient b
AtMost(a, b) == a[1] * b[2] <= b[1] * a[2]

\* get_all_chunk_performance: one item per chunk, in the order of the dict
GetAllChunkPerformance(cp) ==
    [ i \in DOMAIN cp |->
        [ chunk_id |-> cp[i].chunk_id, correct |-> cp[i].correct,
          incorrect |-> cp[i].incorrect, attempts |-> cp[i].attempts,
          accuracy |-> Accuracy(cp[i].correct, cp[i].attempts) ] ]

\* mutant: the threshold itself counts as weak
IsWeakInclusive(p, threshold, min_attempts) ==
    p.attempts >= min_attempts /\ p.accuracy[1] <= threshold * p.accuracy[2]
\* perf["attempts"] >= min_attempts and perf["accuracy"] < threshold
IsWeak(p, threshold, min_attempts) ==
    p.attempts >= min_attempts /\ Below(p.accuracy, threshold)
\* perf["attempts"] >= min_attempts and perf["accuracy"] >= threshold
IsStrong(p, threshold, min_attempts) ==
    p.attempts >= min_attempts /\ ~Below(p.accuracy, threshold)

\* list.sort(key=accuracy): stable, an item goes behind the items that are
\* not greater
RECURSIVE InsertAscending(_, _)
InsertAscending(x, sorted) ==
    IF sorted = << >> THEN <<x>>
    ELSE IF AtMost(Head(sorted).accuracy, x.accuracy)
         THEN <<Head(sorted)>> \o InsertAscending(x, Tail(sorted))
         ELSE <<x>> \o sorted
\* list.sort(key=accuracy, reverse=True): stable, an item goes behind the
\* items that are not smaller
RECURSIVE InsertDescending(_, _)
InsertDescending(x, sorted) ==
    IF sorted = << >> THEN <<x>>
    ELSE IF AtMost(x.accuracy, Head(sorted).accuracy)
         THEN <<Head(sorted)>> \o InsertDescending(x, Tail(sorted))
         ELSE <<x>> \o sorted
RECURSIVE SortAscending(_, _)
SortAscending(items, n) ==
    IF n = 0 THEN << >> ELSE InsertAscending(items[n], SortAscending(items, n - 1))
RECURSIVE SortDescending(_, _)
SortDescending(items, n) ==
    IF n = 0 THEN << >> ELSE InsertDescending(items[n], SortDescending(items, n - 1))

GetWeakAreas(cp, threshold, min_attempts) ==
    LET Weak(p) == IsWeak(p, threshold, min_attempts)
        found == SelectSeq(GetAllChunkPerformance(cp), Weak)
    IN  SortAscending(found, Len(found))

GetStrongAreas(cp, threshold, min_attempts) ==
    LET Strong(p) == IsStrong(p, threshold, min_attempts)
        found == SelectSeq(GetAllChunkPerformance(cp), Strong)
    IN  SortDescending(found, Len(found))

NoResult == [called |-> FALSE, threshold |-> 0, min_attempts |-> 0, list |-> << >>]
NoAreas == [weak |-> NoResult, strong |-> NoResult]

WeakAreas(threshold, min_attempts) ==
    /\ areas' = [areas EXCEPT !.weak =
                    [ called |-> TRUE, threshold |-> threshold,
                      min_attempts |-> min_attempts,
                      list |-> GetWeakAreas(perf, threshold, min_attempts) ]]
    /\ UNCHANGED perf

StrongAreas(threshold, min_attempts) ==
    /\ areas' = [areas EXCEPT !.strong =
                    [ called |-> TRUE, threshold |-> threshold,
                      min_attempts |-> min_attempts,
                      list |-> GetStrongAreas(perf, threshold, min_attempts) ]]
    /\ UNCHANGED perf

\* the defaults of the two functions
WeakThreshold == 60
StrongThreshold == 80
MinAttempts == 2

----------------------------------------------------------------------------
(* analytics.py: extract_chunk_id_from_reference.  A text is the sequence of
   its characters. *)

Digits == {"0", "1", "2", "3", "4", "5", "6", "7", "8", "9"}
Whitespace == {" "}
UpperLetters == <<"A", "B", "C", "D", "E", "F", "G", "H", "I", "J", "K", "L", "M",
                  "N", "O", "P", "Q", "R", "S", "T", "U", "V", "W", "X", "Y", "Z">>
LowerLetters == <<"a", "b", "c", "d", "e", "f", "g", "h", "i", "j", "k", "l", "m",
                  "n", "o", "p", "q", "r", "s", "t", "u", "v", "w", "x", "y", "z">>
\* str.lower on one character
ToLower(c) ==
    IF \E i \in DOMAIN UpperLetters : UpperLetters[i] = c
    THEN LowerLetters[CHOOSE i \in DOMAIN UpperLetters : UpperLetters[i] = c]
    ELSE c
\* the first position from i on whose character is not in set
RECURSIVE SkipWhile(_, _, _)
SkipWhile(s, i, set) ==
    IF i <= Len(s) /\ s[i] \in set THEN SkipWhile(s, i + 1, set) ELSE i

\* r'[Cc]hunk\s*(\d+)' matches at position i
MatchAt(s, i) ==
    /\ i + 4 <= Len(s)
    /\ s[i] \in {"C", "c"}
    /\ SubSeq(s, i + 1, i + 4) = <<"h", "u", "n", "k">>
    /\ LET d == SkipWhile(s, i + 5, Whitespace)
       IN  d <= Len(s) /\ s[d] \in Digits
\* group(1) of the match at i: the longest run of digits
Group(s, i) ==
    LET d == SkipWhile(s, i + 5, Whitespace)
    IN  SubSeq(s, d, SkipWhile(s, d, Digits) - 1)
Unknown == <<"u", "n", "k", "n", "o", "w", "n">>
\* match.group(1) if match else "unknown", for re.search: the leftmost match
ChunkNum(source_reference) ==
    LET matches == {i \in 1..Len(source_reference) : MatchAt(source_reference, i)}
    IN  IF matches = {} THEN Unknown
        ELSE Group(source_reference,
                   CHOOSE i \in matches : \A j \in matches : i <= j)

\* hashlib.md5(filename.encode()).hexdigest()[:8] of the file names of the model
Md5Prefix(filename) ==
    CASE filename = "notes.pdf" -> <<"2", "5", "b", "7", "b", "6", "a", "1">>
      [] filename = "book.pdf" -> <<"3", "7", "f", "0", "6", "6", "d", "3">>

\* source_reference[:50]
PrefixLen == 50

ExtractChunkIdFromReference(source_reference, filename) ==
    IF filename # None /\ filename # ""
    THEN Md5Prefix(filename) \o <<"_", "c", "h", "u", "n", "k", "_">>
            \o ChunkNum(source_reference)
    ELSE [ i \in 1..Min(Len(source_reference), PrefixLen) |->
             ToLower(IF source_reference[i] = " " THEN "_" ELSE source_reference[i]) ]

\* record_quiz_answer on a chunk_performance with text keys: the key, the
\* entry made for a new key, and the counters
CountAnswer(cp, chunk_id, source_reference, is_correct) ==
    LET key == IF chunk_id # << >> THEN chunk_id ELSE source_reference
        cp0 == [k \in (DOMAIN cp) \cup {key} |->
                    IF k \in DOMAIN cp THEN cp[k]
                    ELSE [ correct |-> 0, incorrect |-> 0, attempts |-> 0,
                           source_reference |-> source_reference ]]
    IN  [cp0 EXCEPT ![key] =
            [@ EXCEPT !.attempts = @ + 1,
                      !.correct = IF is_correct THEN @ + 1 ELSE @,
                      !.incorrect = IF is_correct THEN @ ELSE @ + 1]]

NoBook == [chunk_performance |-> EmptyDict, answered |-> EmptyDict, answers |-> 0]

\* An answer to a question made from the chunk (source_reference, filename):
\* the key is derived, then the answer recorded under it.  book.answered
\* keeps, for every key, the chunks whose answers went into its entry.
AnswerChunk(source_reference, filename, is_correct) ==
    LET chunk_id == ExtractChunkIdFromReference(source_reference, filename)
        key == IF chunk_id # << >> THEN chunk_id ELSE source_reference
        before == IF key \in DOMAIN book.answered THEN book.answered[key] ELSE {}
    IN  /\ book.answers < MaxKeyAnswers
        /\ book' =
            [ chunk_performance |->
                CountAnswer(book.chunk_performance, chunk_id, source_reference, is_correct),
              answered |->
                [k \in (DOMAIN book.answered) \cup {key} |->
                    IF k = key THEN before \cup {<<source_reference, filename>>}
                    ELSE book.answered[k]],
              answers |-> book.answers + 1 ]

----------------------------------------------------------------------------
(* llm_agent.py: generate_mixed_bundle.  The three generators run in a pool of
   three threads from time 0; a call is what its generator does (kind) and
   how long it takes (duration).  Times are in units of 30 seconds.  The data
   of a response is a sequence, empty for {}. *)

\* future.result(timeout=120)
TimeoutUnits == 4
\* a call that is over after 30 seconds, and one that takes 180 seconds
Durations == {1, 6}
\* the generator returns data, returns success without data, returns a
\* failure, or raises
Kinds == {"data", "empty", "failed", "raised"}
Calls == [kind : Kinds, duration : Durations]

Response(success, data, error) == [success |-> success, data |-> data, error |-> error]
\* what the generator of the mode returns
Own(mode, c) ==
    IF c.kind = "data" THEN Response(TRUE, <<mode>>, None)
    ELSE IF c.kind = "empty" THEN Response(TRUE, << >>, None)
    ELSE Response(FALSE, << >>, "api error")
\* the response built in the except branch around future.result
Excepted(message) == Response(FALSE, << >>, message)

\* future.result(timeout=120) called at time start: the response captured for
\* the call c and the time at which the wait is over
WaitFor(mode, c, start) ==
    IF c.duration <= start + TimeoutUnits
    THEN [ captured |-> IF c.kind = "raised" THEN Excepted("Exception: boom")
                        ELSE Own(mode, c),
           at |-> Max(start, c.duration) ]
    ELSE [ captured |-> Excepted("Exception: "), at |-> start + TimeoutUnits ]

\* "response.success and response.data"
Usable(response) == response.success /\ response.data # << >>

\* mutant: a bundle needs all three
AllUsable(captured) == \A m \in ModeSet : Usable(captured[m])
\* "(quiz.success and quiz.data) or (flashcard...) or (interactive...)"
AnyUsable(captured) == \E m \in ModeSet : Usable(captured[m])

\* mutant: every mode is listed
FailedAll(captured) == modes
\* the modes whose error is appended, in the order quiz, flashcard, interactive
Failed(captured) == SelectSeq(modes, LAMBDA m : ~Usable(captured[m]))

\* "Quiz: ...", "Flashcards: ...", "Interactive: ..."
ErrorOf(mode, response) ==
    [ mode |-> mode,
      reason |-> IF response.error # None /\ response.error # ""
                 THEN response.error ELSE "Failed to generate" ]

NoErrors == << >>
\* the GenerationResponse of the bundle.  success is the truth value of the
\* expression of line 804, whose value is the data of the first usable mode
\* when there is one; error.present is "error is not None".
BundleOf(captured) ==
    [ success |-> AnyUsable(captured),
      data |-> [m \in ModeSet |-> IF Usable(captured[m]) THEN captured[m].data ELSE << >>],
      has_data |-> TRUE,
      error |-> [ present |-> Failed(captured) # << >>,
                  details |-> [i \in DOMAIN Failed(captured) |->
                                  ErrorOf(Failed(captured)[i], captured[Failed(captured)[i]])] ] ]
\* the responses that leave before or instead of the three results: no valid
\* chunk (681-689), an exception around the pool (783-791)
EarlyFailure ==
    [ success |-> FALSE,
      data |-> [m \in ModeSet |-> << >>],
      has_data |-> FALSE,
      error |-> [present |-> TRUE, details |-> NoErrors] ]

NoCalls == [m \in ModeSet |-> [kind |-> "failed", duration |-> 1]]
NoCaptured == [m \in ModeSet |-> Excepted("")]
NoBundle ==
    [ entry |-> None, calls |-> NoCalls, captured |-> NoCaptured,
      response |-> EarlyFailure ]

GenerateMixedBundle(entry, calls) ==
    LET quiz == WaitFor("quiz", calls["quiz"], 0)
        flashcard == WaitFor("flashcard", calls["flashcard"], quiz.at)
        interactive == WaitFor("interactive", calls["interactive"], flashcard.at)
        captured == [m \in ModeSet |->
                        IF m = "quiz" THEN quiz.captured
                        ELSE IF m = "flashcard" THEN flashcard.captured
                        ELSE interactive.captured]
    IN  bundle' =
            IF entry # "submitted"
            THEN [NoBundle EXCEPT !.entry = entry]
            ELSE [ entry |-> entry, calls |-> calls, captured |-> captured,
                   response |-> BundleOf(captured) ]

----------------------------------------------------------------------------
(* Spec: the commands that write the state, one at a time, through two
   facade instances (two browser sessions of the same user) *)

\* the state a user reaches with n updates (quiz, 1.0) before the run starts;
\* the run starts at time 0
Earlier(n) ==
    [DefaultState EXCEPT
        !.mode_alpha = [@ EXCEPT !["quiz"] = One + n * One],
        !.mode_history = [i \in 1..n |-> Event("quiz", One, i - n, "sA")],
        !.last_updated = IF n = 0 THEN Never ELSE At(0)]

NoAgent == [built |-> FALSE, state |-> DefaultState]

\* a user with n earlier updates; both facades are built at time 0
InitUser(n) ==
    /\ stored = IF n = 0 THEN NoFile ELSE File(Earlier(n))
    /\ facade = [f \in Facades |-> NewFacade(Earlier(n))]
    /\ agent = NoAgent
    /\ clock = 0
    /\ lastOp = Op("init", None)

Writers == {"w1", "w2"}
SessionOfWriter(w) == IF w = "w1" THEN "sA" ELSE "sB"
IdleWriter ==
    [ pc |-> "idle", kind |-> None, base |-> 0, local |-> DefaultState,
      mode |-> None, key |-> None, event |-> Event(None, 0, 0, None) ]

IdleConc == wr = [w \in Writers |-> IdleWriter] /\ saveLog = << >>
Savers == {"s1", "s2"}
IdleSaver == [pc |-> "idle", fd |-> 0, pos |-> 0, len |-> 0, round |-> 0, result |-> TRUE]
NothingRead == [kind |-> "none", content |-> << >>]

\* no file exists, nobody is saving, nothing was read
IdleFile ==
    /\ inodes = << >>
    /\ dir = [state |-> 0, tmp |-> 0]
    /\ sv = [s \in Savers |-> IdleSaver]
    /\ observed = NothingRead

\* handle_command was not called yet
NoCommand == [action |-> None, session_id |-> None, kind |-> None]

\* the variables of SpecCmd and of the specifications of single functions
IdleRest ==
    /\ cmd = NoCommand
    /\ disk = AbsentDoc /\ call = NoCall
    /\ stores = EmptyStores /\ trip = NoTrip
    /\ perf = << >> /\ areas = NoAreas
    /\ book = NoBook
    /\ calc = NoCalc /\ bundle = NoBundle

Init == InitUser(0) /\ IdleConc /\ IdleFile /\ IdleRest

\* the variables of the other specifications stay as they are
SeqOnly == UNCHANGED <<concVars, fileVars, restVars>>

Next ==
    \/ \E f \in Facades, m \in ModeInputs, v \in FeedbackInputs, ok \in BOOLEAN :
            clock < MaxClock /\ UpdateRl(f, m, v, ok) /\ SeqOnly
    \/ \E f \in Facades, p \in Preferences, ok \in BOOLEAN :
            clock < MaxClock /\ Survey(f, p, ok) /\ SeqOnly
    \/ \E f \in Facades, ok \in BOOLEAN : ResetPreferences(f, ok) /\ SeqOnly
    \/ \E a \in Answers, c \in BOOLEAN, ok \in BOOLEAN :
            clock < MaxClock /\ RecordAnswer(a, c, ok) /\ SeqOnly

Spec == Init /\ [][Next]_vars

----------------------------------------------------------------------------
(* SpecRec: recommendations, by the facade and by an RLAgent that outlives
   one command, between the updates of two facade instances *)

NextRec ==
    \/ \E f \in Facades, m \in FewModeInputs, v \in FewFeedbackInputs, ok \in BOOLEAN :
            clock < MaxRecClock /\ UpdateRl(f, m, v, ok) /\ SeqOnly
    \/ \E f \in Facades, d \in [ModeSet -> Draws], raises \in BOOLEAN :
            Recommend(f, d, raises) /\ SeqOnly
    \/ NewAgent /\ SeqOnly
    \/ \E d \in [ModeSet -> Draws] : AgentRecommend(d) /\ SeqOnly

SpecRec == Init /\ [][NextRec]_vars

----------------------------------------------------------------------------
(* SpecCap: updates of a user whose history is one entry short of the cap *)

InitCap == InitUser(HistoryCap - 1) /\ IdleConc /\ IdleFile /\ IdleRest

NextCap ==
    \E f \in Facades, m \in FewModeInputs, v \in FewFeedbackInputs, ok \in BOOLEAN :
        clock < MaxCapClock /\ UpdateRl(f, m, v, ok) /\ SeqOnly

SpecCap == InitCap /\ [][NextCap]_vars

----------------------------------------------------------------------------
(* SpecCmd: commands of every kind sent to handle_command of one facade
   instance of a new user *)

CmdFacades == {"A"}

CmdOnly == UNCHANGED <<concVars, fileVars, disk, call, stores, trip, perf, areas, book, calc, bundle>>

NextCmd ==
    \E f \in CmdFacades, action \in ActionInputs, kind \in ParamKinds :
        \E sid \in SessionInputs(f) : HandleCommand(f, action, sid, kind) /\ CmdOnly

SpecCmd == Init /\ [][NextCmd]_vars


----------------------------------------------------------------------------
(* SpecLoad: the state file holds any content; loads by a caller, by the
   facade constructor, by record_quiz_answer and by facade commands *)

InitLoad ==
    /\ InitUser(0) /\ IdleConc /\ IdleFile
    /\ cmd = NoCommand
    /\ disk \in Docs
    /\ call = NoCall
    /\ stores = EmptyStores /\ trip = NoTrip
    /\ perf = << >> /\ areas = NoAreas
    /\ book = NoBook
    /\ calc = NoCalc /\ bundle = NoBundle

LoadOnly == UNCHANGED <<seqVars, concVars, fileVars, cmd, stores, trip, perf, areas, book, calc, bundle>>

NextLoad ==
    \/ LoadStateCall /\ LoadOnly
    \/ NewManager /\ LoadOnly
    \/ \E ok \in BOOLEAN : RecordAnswerCall(ok) /\ LoadOnly
    \/ \E ok \in BOOLEAN, liked \in BOOLEAN : UpdateRlCall(ok, liked) /\ LoadOnly
    \/ GenerateCall /\ LoadOnly

SpecLoad == InitLoad /\ [][NextLoad]_vars

----------------------------------------------------------------------------
(* SpecAns: answers recorded one after the other for a new user, with resets
   in between *)

NextAns ==
    \/ \E a \in Answers, c \in BOOLEAN, ok \in BOOLEAN :
            clock < MaxAnsClock /\ RecordAnswer(a, c, ok) /\ SeqOnly
    \/ \E ok \in BOOLEAN :
            stored.exists /\ ResetPreferences("A", ok) /\ SeqOnly

SpecAns == Init /\ [][NextAns]_vars

----------------------------------------------------------------------------
(* SpecConc: two writers of the same user's state, each doing one
   read-modify-write (an update of an RLAgent or a record_quiz_answer), whose
   loads and saves interleave freely.  saveLog lists the saves that succeeded;
   wr[w].base is the number of saves that preceded the load of w. *)

\* RLAgent(username) and update_from_feedback up to its save
BeginUpdate(w, rawMode, rawFeedback) ==
    LET now == clock + 1
        local == UpdateFromFeedback(LoadState(stored), rawMode, rawFeedback,
                                    SessionOfWriter(w), now)
    IN  /\ wr[w].pc = "idle"
        /\ wr' = [wr EXCEPT ![w] =
                    [ pc |-> "loaded", kind |-> "update", base |-> Len(saveLog),
                      local |-> local, mode |-> Lower(rawMode), key |-> None,
                      event |-> Event(Lower(rawMode), Clamp(rawFeedback), now,
                                      SessionOfWriter(w)) ]]
        /\ clock' = now
        /\ UNCHANGED <<stored, saveLog>>

\* record_quiz_answer up to its save
BeginAnswer(w, answer, is_correct) ==
    LET now == clock + 1
        local == RecordQuizAnswer(LoadState(stored), answer[1], answer[2],
                                  is_correct, answer[3], now)
    IN  /\ wr[w].pc = "idle"
        /\ wr' = [wr EXCEPT ![w] =
                    [ pc |-> "loaded", kind |-> "answer", base |-> Len(saveLog),
                      local |-> local, mode |-> None,
                      key |-> IF answer[1] # "" THEN answer[1] ELSE answer[2],
                      event |-> Event(None, 0, 0, None) ]]
        /\ clock' = now
        /\ UNCHANGED <<stored, saveLog>>

\* the save_state that ends either operation
FinishSave(w, ok) ==
    /\ wr[w].pc = "loaded"
    /\ stored' = SaveState(stored, wr[w].local, ok)
    /\ saveLog' = IF ok THEN Append(saveLog, [writer |-> w, doc |-> wr[w].local])
                   ELSE saveLog
    /\ wr' = [wr EXCEPT ![w].pc = IF ok THEN "saved" ELSE "failed"]
    /\ UNCHANGED clock

\* the user is new, or has one earlier update and one earlier answer
EarlierConc ==
    RecordQuizAnswer(Earlier(1), "c1", "Chunk 1", TRUE, LongQuestion, 0)

InitConc ==
    /\ \/ InitUser(0)
       \/ /\ stored = File(EarlierConc)
          /\ facade = [f \in Facades |-> NewFacade(EarlierConc)]
          /\ agent = NoAgent
          /\ clock = 0
          /\ lastOp = Op("init", None)
    /\ IdleConc
    /\ IdleFile
    /\ IdleRest

ConcOnly == UNCHANGED <<facade, agent, lastOp, fileVars, restVars>>

NextConc ==
    \/ \E w \in Writers, m \in FewModeInputs, v \in FewFeedbackInputs :
            BeginUpdate(w, m, v) /\ ConcOnly
    \/ \E w \in Writers, a \in Answers, c \in BOOLEAN :
            BeginAnswer(w, a, c) /\ ConcOnly
    \/ \E w \in Writers, ok \in BOOLEAN : FinishSave(w, ok) /\ ConcOnly

SpecConc == InitConc /\ [][NextConc]_vars

----------------------------------------------------------------------------
(* SpecStore: saves and loads of a user and of the global state, while
   Supabase answers some calls and not others *)

InitStore ==
    /\ InitUser(0) /\ IdleConc /\ IdleFile
    /\ cmd = NoCommand
    /\ disk = AbsentDoc /\ call = NoCall
    /\ stores = EmptyStores /\ trip = NoTrip
    /\ perf = << >> /\ areas = NoAreas
    /\ book = NoBook
    /\ calc = NoCalc /\ bundle = NoBundle

\* the states handed to save_state: states the commands of the program build
SaveInputs ==
    { DefaultState, Earlier(1), EarlierConc }

StoreOnly == UNCHANGED <<seqVars, concVars, fileVars, cmd, disk, call, perf, areas, book, calc, bundle>>

NextStore ==
    \/ \E u \in Usernames, state \in SaveInputs, up \in BOOLEAN, fileOk \in BOOLEAN :
            SaveStateCall(u, state, up, fileOk) /\ StoreOnly
    \/ \E u \in Usernames, up \in BOOLEAN : LoadStateAgain(u, up) /\ StoreOnly

SpecStore == InitStore /\ [][NextStore]_vars

----------------------------------------------------------------------------
(* SpecAreas: the analytics of a user with up to MaxEntries chunks, each
   answered as one of EntryCounts says (attempts, correct) *)

EntryCounts == {<<1, 1>>, <<2, 0>>, <<2, 1>>, <<5, 1>>, <<5, 3>>, <<5, 4>>}
ChunkIds == <<"k1", "k2", "k3", "k4">>
Thresholds == {50, WeakThreshold, StrongThreshold}
MinAttemptsInputs == {1, MinAttempts, 3}

\* the chunk_performance record_quiz_answer builds with these counts
Entry(i, counts) ==
    [ chunk_id |-> ChunkIds[i], attempts |-> counts[1], correct |-> counts[2],
      incorrect |-> counts[1] - counts[2] ]

InitAreas ==
    /\ InitUser(0) /\ IdleConc /\ IdleFile
    /\ cmd = NoCommand
    /\ disk = AbsentDoc /\ call = NoCall
    /\ stores = EmptyStores /\ trip = NoTrip
    /\ \E n \in 0..MaxEntries : \E counts \in [1..n -> EntryCounts] :
            perf = [i \in 1..n |-> Entry(i, counts[i])]
    /\ areas = NoAreas
    /\ book = NoBook
    /\ calc = NoCalc /\ bundle = NoBundle

AreasOnly ==
    UNCHANGED <<seqVars, concVars, fileVars, cmd, disk, call, stores, trip, book, calc, bundle>>

NextAreas ==
    \/ \E t \in Thresholds, m \in MinAttemptsInputs : WeakAreas(t, m) /\ AreasOnly
    \/ \E t \in Thresholds, m \in MinAttemptsInputs : StrongAreas(t, m) /\ AreasOnly

SpecAreas == InitAreas /\ [][NextAreas]_vars

----------------------------------------------------------------------------
(* SpecKeys: answers to questions made from the chunks of two files, or of
   no named file, recorded under the derived keys *)

Filenames == {"notes.pdf", "book.pdf", None}
LongText == [i \in 1..PrefixLen |-> "a"]
References ==
    { <<"C", "h", "u", "n", "k", " ", "1", " ", "-", " ", "a">>,
      <<"C", "h", "u", "n", "k", " ", "2", " ", "-", " ", "a">>,
      <<"c", "h", "u", "n", "k", "1", "2", " ", "b">>,
      <<"I", "n", "t", "r", "o">>,
      <<"S", "u", "m", "m", "a", "r", "y">>,
      <<"i", "n", "t", "r", "o">>,
      <<"a", " ", "b">>,
      <<"a", "_", "b">>,
      LongText \o <<"x">>,
      LongText \o <<"y">> }

InitKeys ==
    /\ InitUser(0) /\ IdleConc /\ IdleFile
    /\ cmd = NoCommand
    /\ disk = AbsentDoc /\ call = NoCall
    /\ stores = EmptyStores /\ trip = NoTrip
    /\ perf = << >> /\ areas = NoAreas
    /\ book = NoBook
    /\ calc = NoCalc /\ bundle = NoBundle

KeysOnly ==
    UNCHANGED <<seqVars, concVars, fileVars, cmd, disk, call, stores, trip, perf, areas,
                calc, bundle>>

NextKeys ==
    \E r \in References, f \in Filenames, is_correct \in BOOLEAN :
        AnswerChunk(r, f, is_correct) /\ KeysOnly

SpecKeys == InitKeys /\ [][NextKeys]_vars

----------------------------------------------------------------------------
(* SpecCtx: _get_feedback_context and the count adjustment for a user with a
   history of up to MaxEvents feedback events for quizzes, with or without an
   event for flashcards before them *)

EventFeedbacks == {0, 4, One}
OtherEvents == { << >>, <<Event("flashcard", One, 0, None)>> }
CtxTypes == {"quiz", "interactive"}
CtxBases == {2, 10}

IdleButCalc ==
    /\ InitUser(0) /\ IdleConc /\ IdleFile
    /\ cmd = NoCommand
    /\ disk = AbsentDoc /\ call = NoCall
    /\ stores = EmptyStores /\ trip = NoTrip
    /\ perf = << >> /\ areas = NoAreas
    /\ book = NoBook

InitCtx ==
    /\ IdleButCalc
    /\ bundle = NoBundle
    /\ \E n \in 0..MaxEvents : \E values \in [1..n -> EventFeedbacks] :
        \E other \in OtherEvents :
            calc = [NoCalc EXCEPT !.history =
                        other \o [i \in 1..n |-> Event("quiz", values[i], i, None)]]

CalcOnly ==
    UNCHANGED <<seqVars, concVars, fileVars, cmd, disk, call, stores, trip, perf, areas,
                book, bundle>>

NextCtx ==
    \/ \E t \in CtxTypes : FeedbackContextCall(t) /\ CalcOnly
    \/ \E b \in CtxBases :
        /\ calc.fn = "_get_feedback_context"
        /\ AdaptiveCountCall(b, calc.context, calc.content_type)
        /\ CalcOnly

SpecCtx == InitCtx /\ [][NextCtx]_vars

----------------------------------------------------------------------------
(* SpecCount: _calculate_item_count for up to MaxChunkCount chunks, and the
   two count adjustments for base counts up to MaxBase and a context with any
   average feedback between 0.0 and 1.0 *)

GridContexts ==
    {NeutralContext} \cup
    { [NeutralContext EXCEPT !.has_feedback = TRUE, !.feedback_count = 1,
                             !.average_feedback = <<a, 1>>] : a \in 0..One }

InitCount == IdleButCalc /\ bundle = NoBundle /\ calc = NoCalc

NextCount ==
    \/ \E t \in ContentTypes, n \in 1..MaxChunkCount : ItemCountCall(t, n) /\ CalcOnly
    \/ \E b \in 1..MaxBase, fc \in GridContexts, t \in ModeSet :
            AdaptiveCountCall(b, fc, t) /\ CalcOnly

SpecCount == InitCount /\ [][NextCount]_vars

----------------------------------------------------------------------------
(* SpecBundle: mixed bundles, one after the other, with every combination of
   what the three generators do and how long they take *)

Entries == {"submitted", "no_chunks", "pool_error"}

InitBundle == IdleButCalc /\ calc = NoCalc /\ bundle = NoBundle

BundleOnly ==
    UNCHANGED <<seqVars, concVars, fileVars, cmd, disk, call, stores, trip, perf, areas,
                book, calc>>

NextBundle ==
    \E entry \in Entries, calls \in [ModeSet -> Calls] :
        GenerateMixedBundle(entry, calls) /\ BundleOnly

SpecBundle == InitBundle /\ [][NextBundle]_vars

----------------------------------------------------------------------------
(* SpecFile: the file branch of save_state and load_state, system call by
   system call.  inodes[i] is the content of the i-th file created, a sequence
   of pieces; dir.state and dir.tmp are the files the state path and the
   temporary path name (0: the path does not exist).  Every saver of a user
   computes the same two paths.  A document of n pieces written by the r-th
   save of saver s is the pieces Piece(s, r, 1, n) .. Piece(s, r, n, n). *)

Piece(s, r, i, n) == [saver |-> s, round |-> r, i |-> i, of |-> n]
\* the bytes a sparse write leaves before its offset
Hole == Piece(None, 0, 0, 0)

Document(s, r, n) == [i \in 1..n |-> Piece(s, r, i, n)]

\* json.load succeeds on the content: it is one whole document
IsDocument(content) ==
    /\ content # << >>
    /\ content = Document(content[1].saver, content[1].round, content[1].of)

\* write(2) of one piece at offset pos of a file
WriteAt(content, pos, piece) ==
    [i \in 1..Max(Len(content), pos + 1) |->
        IF i = pos + 1 THEN piece
        ELSE IF i <= Len(content) THEN content[i]
        ELSE Hole]

\* open(temp_path, 'w'): creates the temporary file, or truncates the file
\* the temporary path names already
OpenTemp(s, n) ==
    /\ sv[s].pc = "idle"
    /\ sv[s].round < MaxSaves
    /\ IF dir.tmp = 0
       THEN /\ inodes' = Append(inodes, << >>)
            /\ dir' = [dir EXCEPT !.tmp = Len(inodes) + 1]
       ELSE /\ inodes' = [inodes EXCEPT ![dir.tmp] = << >>]
            /\ dir' = dir
    /\ sv' = [sv EXCEPT ![s] =
                [ pc |-> "writing", fd |-> dir'.tmp, pos |-> 0, len |-> n,
                  round |-> sv[s].round + 1, result |-> TRUE ]]
    /\ UNCHANGED observed

\* json.dump: the next piece goes to the open file at the saver's offset
WriteChunk(s) ==
    /\ sv[s].pc = "writing"
    /\ sv[s].pos < sv[s].len
    /\ inodes' = [inodes EXCEPT ![sv[s].fd] =
                    WriteAt(@, sv[s].pos, Piece(s, sv[s].round, sv[s].pos + 1, sv[s].len))]
    /\ sv' = [sv EXCEPT ![s].pos = @ + 1]
    /\ UNCHANGED <<dir, observed>>

\* temp_path.replace(state_path) after the file is closed: the state path
\* names the file the temporary path named; when the temporary path is gone
\* the call raises and save_state returns False
ReplaceState(s) ==
    /\ sv[s].pc = "writing"
    /\ sv[s].pos = sv[s].len
    /\ dir' = IF dir.tmp # 0 THEN [state |-> dir.tmp, tmp |-> 0] ELSE dir
    /\ sv' = [sv EXCEPT ![s].pc = "idle", ![s].result = (dir.tmp # 0)]
    /\ UNCHANGED <<inodes, observed>>

\* load_state: defaults when the state path does not exist or its content
\* does not parse, else the document read
ReadState ==
    /\ observed' =
        IF dir.state = 0 THEN [kind |-> "absent", content |-> << >>]
        ELSE IF IsDocument(inodes[dir.state])
             THEN [kind |-> "document", content |-> inodes[dir.state]]
             ELSE [kind |-> "corrupt", content |-> inodes[dir.state]]
    /\ UNCHANGED <<inodes, dir, sv>>

InitFile == InitUser(0) /\ IdleConc /\ IdleFile /\ IdleRest

FileOnly == UNCHANGED <<seqVars, concVars, restVars>>

NextFile ==
    \/ \E s \in Savers, n \in 1..MaxChunks : OpenTemp(s, n) /\ FileOnly
    \/ \E s \in Savers : WriteChunk(s) /\ FileOnly
    \/ \E s \in Savers : ReplaceState(s) /\ FileOnly
    \/ ReadState /\ FileOnly

SpecFile == InitFile /\ [][NextFile]_vars

----------------------------------------------------------------------------
(* Claims about the commands that write the state *)

Range(h) == {h[i] : i \in DOMAIN h}
HistoryOf(file) == LoadState(file).mode_history
ChunksOf(file) == LoadState(file).chunk_performance

\* a step that is an update_rl command for a known mode
IsUpdate(op) == op.op = "update_rl" /\ op.known

\* C1: update(mode, f) for a known mode, with v = f clamped to [0,1]: when
\* v > 0.5 the success parameter of the mode grows by exactly v and its
\* failure parameter is unchanged; otherwise the failure parameter grows by
\* exactly 1 - v and the success parameter is unchanged; the parameters of the
\* other modes are unchanged and the event appended last carries the mode and v.
C1_Step ==
    IsUpdate(lastOp') =>
        LET before == LoadState(stored)
            after == lastOp'.after
            m == lastOp'.mode
            f == lastOp'.raw
            v == IF f < 0 THEN 0 ELSE IF f > One THEN One ELSE f
            last == after.mode_history[Len(after.mode_history)]
        IN  /\ v > Half =>
                /\ after.mode_alpha[m] = before.mode_alpha[m] + v
                /\ after.mode_beta[m] = before.mode_beta[m]
            /\ v <= Half =>
                /\ after.mode_beta[m] = before.mode_beta[m] + (One - v)
                /\ after.mode_alpha[m] = before.mode_alpha[m]
            /\ \A o \in ModeSet \ {m} :
                /\ after.mode_alpha[o] = before.mode_alpha[o]
                /\ after.mode_beta[o] = before.mode_beta[o]
            /\ last.mode = m
            /\ last.feedback = v
            /\ lastOp'.saved => stored' = File(after)
C1_UpdateCredits == [][C1_Step]_vars

\* C1 witness: an update with feedback 0.5 on a fresh mode has been saved and
\* left 1.5 in the failure parameter and 1.0 in the success parameter
C1_Witness ==
    /\ IsUpdate(lastOp) /\ lastOp.saved /\ lastOp.raw = Half
    /\ stored.doc.mode_beta[lastOp.mode] = One + Half
    /\ stored.doc.mode_alpha[lastOp.mode] = One

\* the states the program holds: the persisted one as load_state returns it,
\* the copy of each facade, the one of the last updating agent
HeldStates ==
    {LoadState(stored), lastOp.after} \cup {facade[f].state : f \in Facades}

Positive(state) ==
    /\ ModeSet \subseteq DOMAIN state.mode_alpha
    /\ ModeSet \subseteq DOMAIN state.mode_beta
    /\ \A m \in ModeSet : state.mode_alpha[m] >= Floor /\ state.mode_beta[m] >= Floor

\* C2: in every state reached from a fresh or reset state by update, survey,
\* recordAnswer and load, each of the three modes has an entry in mode_success
\* and in mode_failure, and every entry is at least the floor 0.1 (so > 0).
C2_FloorInvariant ==
    /\ \A s \in HeldStates : Positive(s)
    /\ stored.exists => Positive(stored.doc)

\* C2 witness: two updates with feedback 0.0 on the same mode have been saved
C2_Witness ==
    /\ IsUpdate(lastOp) /\ lastOp.feedback = 0 /\ lastOp.saved
    /\ stored.doc.mode_beta[lastOp.mode] = One + One + One

\* every interaction_log the program holds or has persisted is within the cap
C3_Len ==
    /\ \A s \in HeldStates : Len(s.mode_history) <= HistoryCap
    /\ Len(stored.doc.mode_history) <= HistoryCap

\* an update appends its event last, keeps the entries it retains in their
\* order and drops only the oldest ones
C3_Fifo ==
    IsUpdate(lastOp') =>
        LET h == HistoryOf(stored)
            h2 == lastOp'.after.mode_history
            dropped == Len(h) + 1 - Len(h2)
        IN  /\ Len(h2) = Min(Len(h) + 1, HistoryCap)
            /\ h2[Len(h2)] =
                 Event(lastOp'.mode, lastOp'.feedback, clock', SessionOf(lastOp'.facade))
            /\ \A i \in 1..(Len(h2) - 1) : h2[i] = h[i + dropped]
            /\ lastOp'.saved => HistoryOf(stored') = h2

\* C3: after any sequence of updates the interaction_log, in memory and
\* persisted, has at most 1000 entries; an update that would exceed the cap
\* drops the oldest entries, keeps the others in their order and has its own
\* event last.
C3_CapFifo == []C3_Len /\ [][C3_Fifo]_vars

\* C3 witness: the persisted log is full and its oldest entry is no longer
\* the oldest entry the user started with
C3_Witness ==
    /\ IsUpdate(lastOp) /\ lastOp.saved
    /\ Len(stored.doc.mode_history) = HistoryCap
    /\ stored.doc.mode_history[1].timestamp > 2 - HistoryCap

\* C7 (as claimed): a FeedbackEvent that is persisted is still in the persisted
\* interaction_log after a later survey or recordAnswer, whichever facade
\* instance issues it (commands never overlap in Spec).
C7_Step ==
    lastOp'.op \in {"survey", "record_answer"} =>
        Range(HistoryOf(stored)) \subseteq Range(HistoryOf(stored'))
C7_EventsSurvive == [][C7_Step]_vars

\* C8 (as claimed): a ChunkPerformance entry that is persisted stays in the
\* persisted chunk_stats, with counters that do not decrease, after every
\* later update_rl, survey and recordAnswer; only reset_preferences removes it.
C8_Step ==
    lastOp'.op \in {"update_rl", "survey", "record_answer"} =>
        \A k \in DOMAIN ChunksOf(stored) :
            /\ k \in DOMAIN ChunksOf(stored')
            /\ ChunksOf(stored')[k].attempts >= ChunksOf(stored)[k].attempts
            /\ ChunksOf(stored')[k].correct >= ChunksOf(stored)[k].correct
            /\ ChunksOf(stored')[k].incorrect >= ChunksOf(stored)[k].incorrect
C8_ChunksSurvive == [][C8_Step]_vars

----------------------------------------------------------------------------
(* Claims about recommendations *)

\* a state reached by a recommendation the engine computed
IsRecommendation(op) ==
    op.op \in {"recommend", "agent_recommend"} /\ ~op.raised

Index(m) == CHOOSE i \in 1..Len(modes) : modes[i] = m

\* the quotient <<n, d>> equals a / (a + b)
IsRate(q, a, b) == q[1] * (a + b) = a * q[2]
InUnit(q) == q[2] > 0 /\ 0 <= q[1] /\ q[1] <= q[2]

\* the two greatest of the three samples
Top(samples) == CHOOSE x \in Range(samples) : \A y \in Range(samples) : y <= x
Second(samples) ==
    IF \E m, n \in ModeSet : m # n /\ samples[m] = Top(samples) /\ samples[n] = Top(samples)
    THEN Top(samples)
    ELSE CHOOSE x \in Range(samples) \ {Top(samples)} :
            \A y \in Range(samples) \ {Top(samples)} : y <= x

\* C4: recommend() returns the mode whose sample is highest; among several
\* modes with the highest sample the first of [quiz, flashcard, interactive]
\* is returned; a draw that fails counts as the sample 0.5.
C4_HighestSampleFirst ==
    IsRecommendation(lastOp) =>
        LET r == lastOp.rec
            best == r.recommended_mode
        IN  /\ \A m \in ModeSet :
                r.samples[m] = IF lastOp.draws[m].ok THEN lastOp.draws[m].v ELSE Half
            /\ best \in ModeSet
            /\ \A m \in ModeSet : r.samples[m] <= r.samples[best]
            /\ \A m \in ModeSet : Index(m) < Index(best) => r.samples[m] < r.samples[best]

\* C4 witness: flashcard, whose draw failed, ties with interactive above quiz
\* and is the one recommended
C4_Witness ==
    /\ IsRecommendation(lastOp)
    /\ ~lastOp.draws["flashcard"].ok
    /\ lastOp.rec.samples["interactive"] = Half
    /\ lastOp.rec.samples["quiz"] < Half
    /\ lastOp.rec.recommended_mode = "flashcard"

\* what every answer of the recommend command satisfies
C5_Shape(op) ==
    /\ op.success
    /\ op.rec.recommended_mode \in ModeSet
    /\ \A m \in ModeSet : InUnit(op.rec.probabilities[m])
    /\ 0 <= op.rec.confidence /\ op.rec.confidence <= One

\* what the answer satisfies when the engine computed it
C5_Computed(op) ==
    /\ \A m \in ModeSet :
        IsRate(op.rec.probabilities[m],
               LoadState(stored).mode_alpha[m], LoadState(stored).mode_beta[m])
    /\ op.rec.confidence = Top(op.rec.samples) - Second(op.rec.samples)

\* C5 (as claimed): the recommend command always answers success with a mode
\* of the fixed set, a probability in [0,1] equal to success/(success+failure)
\* for each mode and a confidence in [0,1] equal to the top sample minus the
\* second one, also when the engine raises.
C5_AsClaimed ==
    lastOp.op = "recommend" =>
        /\ C5_Shape(lastOp)
        /\ \A m \in ModeSet :
            IsRate(lastOp.rec.probabilities[m],
                   LoadState(stored).mode_alpha[m], LoadState(stored).mode_beta[m])
        /\ ~lastOp.raised =>
            lastOp.rec.confidence = Top(lastOp.rec.samples) - Second(lastOp.rec.samples)

\* C5 (amended): the recommend command always answers success with a mode of
\* the fixed set, probabilities in [0,1] and a confidence in [0,1]; when the
\* engine does not raise, each probability equals success/(success+failure)
\* and the confidence is the top sample minus the second one; when it raises,
\* the answer is quiz, 0.5 for every mode and confidence 0.0.
C5_RecommendAnswer ==
    lastOp.op = "recommend" =>
        /\ C5_Shape(lastOp)
        /\ ~lastOp.raised => C5_Computed(lastOp)
        /\ lastOp.raised =>
            /\ lastOp.rec.recommended_mode = "quiz"
            /\ \A m \in ModeSet : IsRate(lastOp.rec.probabilities[m], One, One)
            /\ lastOp.rec.confidence = 0

\* C5 witness: the engine raised while the persisted success and failure of
\* quiz differ
C5_Witness ==
    /\ lastOp.op = "recommend" /\ lastOp.raised
    /\ LoadState(stored).mode_alpha["quiz"] # LoadState(stored).mode_beta["quiz"]

----------------------------------------------------------------------------
(* Claims about overlapping writers *)

\* both writers loaded before either saved, and both saves succeeded
Overlapped ==
    /\ \A w \in Writers : wr[w].pc = "saved" /\ wr[w].base = 0
    /\ Len(saveLog) = 2

Attempts(state, k) ==
    IF k \in DOMAIN state.chunk_performance
    THEN state.chunk_performance[k].attempts
    ELSE 0

\* the state both writers loaded: the one the user started with, which the
\* facades, idle in SpecConc, still hold
LoadedByBoth == facade["A"].state

\* the mutation of writer w is absent from the state: its event is not in the
\* log, or the attempts of its key count no answer beyond those of the state
\* both writers loaded and the one of the other writer
Absent(w, o, state, initial) ==
    /\ wr[w].kind = "update" => wr[w].event \notin Range(state.mode_history)
    /\ wr[w].kind = "answer" =>
        Attempts(state, wr[w].key) =
            Attempts(initial, wr[w].key)
                + (IF wr[o].kind = "answer" /\ wr[o].key = wr[w].key THEN 1 ELSE 0)

----------------------------------------------------------------------------
(* Claims about the state file *)

\* C10 (as claimed): under any interleaving of saves and loads of one user,
\* two saves at the same time included, the state file holds one whole
\* document written by a single save and no load reads anything else.
C10_ReaderSeesWhole ==
    /\ dir.state # 0 => IsDocument(inodes[dir.state])
    /\ observed.kind # "corrupt"

----------------------------------------------------------------------------
(* Claims about handle_command (SpecCmd) *)

\* a generate command that supplies nothing but a session id
OnlySessionId(op) ==
    /\ op.op = "generate"
    /\ op.params.chunks = << >>
    /\ ~op.params.extracted
    /\ cmd'.session_id # None

C11_State ==
    lastOp.op = "reset_preferences" =>
        /\ LoadState(stored) = DefaultState
        /\ facade[lastOp.facade].state = DefaultState
        /\ facade[lastOp.facade].session_context = EmptyDict
C11_Following ==
    (lastOp.op = "reset_preferences" /\ OnlySessionId(lastOp')) =>
        /\ ~lastOp'.success
        /\ ~lastOp'.request.sent
\* C11: after reset_preferences the persisted state and the state the facade
\* holds are the defaults and the session context is empty, and a generate
\* that follows with nothing but a session id fails without calling the
\* generator.
C11_ResetRestoresDefaults == []C11_State /\ [][C11_Following]_vars

C12_Result ==
    cmd # NoCommand =>
        /\ ~lastOp.escaped
        /\ lastOp.success \in BOOLEAN
        /\ (cmd.kind = "dict" /\ cmd.action \in Actions) => lastOp.op = cmd.action
        /\ cmd.action \notin Actions =>
            /\ lastOp.op = "none"
            /\ ~lastOp.success
            /\ lastOp.error # None
C12_Frame ==
    cmd'.action \notin Actions =>
        /\ stored' = stored
        /\ \A f \in Facades : facade'[f].session_context = facade[f].session_context
\* C12: handle_command never lets an exception reach its caller and always
\* answers with a success field; each of the six known actions runs its own
\* handler and no other; any other action is answered with success = false
\* and an error, and changes neither the persisted state nor the session
\* context.
C12_NeverRaises == []C12_Result /\ [][C12_Frame]_vars
\* an unknown action sent when a state is persisted and chunks are held
C12_Witness ==
    /\ cmd.action = "delete"
    /\ cmd.kind = "dict"
    /\ lastOp.error = "unknown_action"
    /\ stored.exists
    /\ \E f \in Facades : \E sid \in DOMAIN facade[f].session_context :
            facade[f].session_context[sid].chunks # << >>

----------------------------------------------------------------------------
(* More claims about the commands that write the state (Spec) *)

\* an update_rl command whose mode is none of self.modes
IsUnknownUpdate(op) == op.op = "update_rl" /\ ~op.known /\ op.error = None

C13_Step ==
    IsUnknownUpdate(lastOp') =>
        /\ lastOp'.after = LoadState(stored)
        /\ stored' = stored
        /\ ~lastOp'.saved
        /\ clock' = clock
\* C13: an update whose mode is none of quiz, flashcard, interactive changes
\* nothing: the parameters, the history and last_updated of the state the
\* agent holds are those it loaded, and the persisted state is not written.
C13_UnknownModeNoOp == [][C13_Step]_vars
\* an update with an unknown mode on a user who has feedback persisted
C13_Witness ==
    /\ IsUnknownUpdate(lastOp)
    /\ lastOp.mode = "essay"
    /\ Len(HistoryOf(stored)) > 0

\* C15: when the save of an update fails the command still succeeds and the
\* state the facade holds in memory contains the update: the parameters and
\* the history the agent had computed, with the new event last.
C15_UpdateKeptInMemory ==
    (IsUpdate(lastOp) /\ ~lastOp.saved) =>
        /\ lastOp.success
        /\ ~lastOp.escaped
        /\ facade[lastOp.facade].state = lastOp.after

----------------------------------------------------------------------------
(* More claims about handle_command (SpecCmd) *)

Failure(op) == ~op.success /\ op.error # None

\* generate was refused: unknown content type, or no chunk left to work on
C14_Generate ==
    (lastOp.op = "generate" /\ lastOp.params.content_type \notin ContentTypes)
        \/ (lastOp.op = "generate" /\ lastOp.error = "no_chunks")
        => Failure(lastOp)
C14_Action == (cmd # NoCommand /\ cmd.action \notin Actions) => Failure(lastOp)
C14_Mode == (lastOp.op = "update_rl" /\ ~lastOp.known) => Failure(lastOp)
\* C14: every input validation failure reaches the caller of the facade as
\* success = false with an error message: update_rl with an unknown mode,
\* generate without chunks or with an unknown content type, an unknown action.
C14_ValidationReported == C14_Mode /\ C14_Generate /\ C14_Action

----------------------------------------------------------------------------
(* Claims about load_state and save_state (SpecLoad) *)

\* a state file that exists and is not what save_state writes
Malformed(doc) == doc.kind # "absent" /\ doc # ObjectDoc(DefaultTags)

\* C16: whatever malformed content the state file has (text that does not
\* parse, a document that is no object, missing, extra or wrongly typed
\* fields), load_state returns the default state, and no exception reaches the
\* caller of load_state, of the facade constructor, of record_quiz_answer or
\* of a facade command.
C16_MalformedGivesDefaults ==
    (call.fn # None /\ Malformed(call.doc)) =>
        /\ ~call.escaped
        /\ call.fn = "load_state" => call.content = "defaults"

\* C17: when save_state(state, user) returned true and no save of that user
\* followed, load_state(user) returns a state equal to the saved one field
\* for field, for a named user and for the global state.
C17_RoundTrip ==
    (trip.did = "load_state" /\ trip.last[trip.username].returned) =>
        trip.loaded = trip.last[trip.username].state

----------------------------------------------------------------------------
(* Claims about record_quiz_answer and the analytics (SpecAns) *)

Balanced(cp) == \A k \in DOMAIN cp : cp[k].attempts = cp[k].correct + cp[k].incorrect
ZeroCounters == [attempts |-> 0, correct |-> 0, incorrect |-> 0]
CountersOf(cp, k) ==
    IF k \in DOMAIN cp
    THEN [attempts |-> cp[k].attempts, correct |-> cp[k].correct,
          incorrect |-> cp[k].incorrect]
    ELSE ZeroCounters

C18_Inv == Balanced(ChunksOf(stored)) /\ Balanced(lastOp.after.chunk_performance)
C18_Step ==
    lastOp'.op = "record_answer" =>
        LET before == ChunksOf(stored)
            after == lastOp'.after.chunk_performance
            k == lastOp'.key
            old == CountersOf(before, k)
            new == CountersOf(after, k)
        IN  /\ DOMAIN after = (DOMAIN before) \cup {k}
            /\ new.attempts = old.attempts + 1
            /\ \/ new.correct = old.correct + 1 /\ new.incorrect = old.incorrect
               \/ new.correct = old.correct /\ new.incorrect = old.incorrect + 1
            /\ \A o \in DOMAIN before : o # k => after[o] = before[o]
            /\ lastOp'.saved => stored' = File(lastOp'.after)
            /\ ~lastOp'.saved => stored' = stored
\* C18: starting from a fresh or reset state, after any sequence of recorded
\* answers every entry has attempts = correct + incorrect; each answer raises
\* attempts of its key by exactly 1 and exactly one of correct and incorrect
\* by 1, leaves the other entries alone, and starts a new entry from zero.
C18_CountersBalanced == []C18_Inv /\ [][C18_Step]_vars
\* an entry answered once right and twice wrong, beside another entry
C18_Witness ==
    /\ lastOp.op = "record_answer"
    /\ lastOp.saved
    /\ \E k \in DOMAIN ChunksOf(stored) :
            ChunksOf(stored)[k].correct >= 1 /\ ChunksOf(stored)[k].incorrect >= 2
    /\ Cardinality(DOMAIN ChunksOf(stored)) = 2

----------------------------------------------------------------------------
(* Claims about get_weak_areas and get_strong_areas (SpecAreas) *)

IdsOf(list) == {list[i].chunk_id : i \in DOMAIN list}
\* the chunks with enough attempts whose accuracy correct * 100 / attempts is
\* below the threshold (weak) or not below it (strong)
Expected(weak, threshold, min_attempts) ==
    { perf[i].chunk_id : i \in
        { j \in DOMAIN perf :
            /\ perf[j].attempts >= min_attempts
            /\ weak <=> perf[j].correct * 100 < threshold * perf[j].attempts } }
Exactly(r, weak) ==
    /\ IdsOf(r.list) = Expected(weak, r.threshold, r.min_attempts)
    /\ Len(r.list) = Cardinality(IdsOf(r.list))
    /\ \A i \in DOMAIN r.list :
            r.list[i].accuracy[1] * r.list[i].attempts
                = r.list[i].correct * 100 * r.list[i].accuracy[2]
\* neighbours in the list are in ascending (descending) order of accuracy
Ordered(list, ascending) ==
    \A i \in 1..(Len(list) - 1) :
        IF ascending
        THEN list[i].correct * list[i+1].attempts <= list[i+1].correct * list[i].attempts
        ELSE list[i].correct * list[i+1].attempts >= list[i+1].correct * list[i].attempts
Defaults(r, threshold) ==
    r.called /\ r.threshold = threshold /\ r.min_attempts = MinAttempts

\* C19: get_weak_areas returns exactly the chunks with attempts >= minAttempts
\* and accuracy < threshold, in ascending order of accuracy; get_strong_areas
\* exactly those with attempts >= minAttempts and accuracy >= threshold, in
\* descending order.  With the defaults 60, 80 and 2 no chunk is in both, and
\* a chunk with 1 of 5 answers correct has accuracy 20 and is weak only.
C19_WeakAndStrong ==
    /\ areas.weak.called => Exactly(areas.weak, TRUE) /\ Ordered(areas.weak.list, TRUE)
    /\ areas.strong.called =>
            Exactly(areas.strong, FALSE) /\ Ordered(areas.strong.list, FALSE)
    /\ (Defaults(areas.weak, WeakThreshold) /\ Defaults(areas.strong, StrongThreshold)) =>
            /\ IdsOf(areas.weak.list) \cap IdsOf(areas.strong.list) = {}
            /\ \A i \in DOMAIN perf :
                (perf[i].attempts = 5 /\ perf[i].correct = 1) =>
                    /\ \E j \in DOMAIN areas.weak.list :
                            /\ areas.weak.list[j].chunk_id = perf[i].chunk_id
                            /\ areas.weak.list[j].accuracy[1]
                                    = 20 * areas.weak.list[j].accuracy[2]
                    /\ perf[i].chunk_id \notin IdsOf(areas.strong.list)
\* both lists computed with the defaults for a user with a chunk answered 5
\* times, once right, and a chunk that is strong
C19_Witness ==
    /\ Defaults(areas.weak, WeakThreshold)
    /\ Defaults(areas.strong, StrongThreshold)
    /\ \E i \in DOMAIN perf : perf[i].attempts = 5 /\ perf[i].correct = 1
    /\ Len(areas.strong.list) >= 1
    /\ Len(areas.weak.list) >= 1

----------------------------------------------------------------------------
(* Claims about the chunk keys (SpecKeys) *)

HasOrdinal(source_reference) == ChunkNum(source_reference) # Unknown
\* a and b are (source_reference, filename) of two different chunks: other
\* ordinals in one file, one ordinal in two files, or no ordinal and other text
DifferentOrdinals(a, b) ==
    /\ HasOrdinal(a[1]) /\ HasOrdinal(b[1])
    /\ a[2] = b[2] /\ ChunkNum(a[1]) # ChunkNum(b[1])
DifferentFiles(a, b) ==
    /\ HasOrdinal(a[1]) /\ HasOrdinal(b[1])
    /\ a[2] # None /\ b[2] # None /\ a[2] # b[2]
    /\ ChunkNum(a[1]) = ChunkNum(b[1])
DifferentTexts(a, b) ==
    /\ ~HasOrdinal(a[1]) /\ ~HasOrdinal(b[1])
    /\ a[2] = b[2] /\ a[1] # b[1]
DifferentChunks(a, b) ==
    DifferentOrdinals(a, b) \/ DifferentFiles(a, b) \/ DifferentTexts(a, b)

\* C20: the key derivation never gives two different chunks the same key
\* (other ordinals in one file, one ordinal in two files, no ordinal and other
\* text, with or without a file name), so no entry of chunk_performance
\* accumulates the answers of two different chunks.
C20_NoMergedChunks ==
    \A key \in DOMAIN book.answered :
        \A a \in book.answered[key], b \in book.answered[key] : ~DifferentChunks(a, b)

----------------------------------------------------------------------------
(* Claims about generate (SpecCmd) *)

Blank(chunk) == chunk \in {"", " "}
AllBlank(chunks) == \A i \in DOMAIN chunks : Blank(chunks[i])
RECURSIVE WithoutBlanks(_)
WithoutBlanks(chunks) ==
    IF chunks = << >> THEN << >>
    ELSE IF Blank(Head(chunks)) THEN WithoutBlanks(Tail(chunks))
    ELSE <<Head(chunks)>> \o WithoutBlanks(Tail(chunks))
\* the chunks the command comes with: those of the params, else those of the
\* session, else the extracted_chunks of the params
ChunksGiven(op, ctx, sid) ==
    IF op.params.chunks # << >> THEN op.params.chunks
    ELSE IF sid # None /\ sid \in DOMAIN ctx /\ ctx[sid].chunks # << >>
    THEN ctx[sid].chunks
    ELSE op.params.extracted_chunks

C21_Sent ==
    lastOp.request.sent =>
        /\ lastOp.request.chunks # << >>
        /\ ~AllBlank(lastOp.request.chunks)
        /\ \A i \in DOMAIN lastOp.request.chunks : ~Blank(lastOp.request.chunks[i])
C21_Step ==
    (lastOp'.op = "generate" /\ lastOp'.params.content_type \in ContentTypes) =>
        LET given == ChunksGiven(lastOp', facade[lastOp'.facade].session_context,
                                 cmd'.session_id)
        IN  IF AllBlank(given)
            THEN /\ ~lastOp'.success
                 /\ ~lastOp'.request.sent
                 /\ lastOp'.request.feedback_context = EmptyDict
                 /\ facade' = facade
                 /\ stored' = stored
            ELSE lastOp'.request.sent =>
                    lastOp'.request.chunks = WithoutBlanks(given)
\* C21: the generator is never called with zero non-empty chunks.  Whatever
\* the source of the chunks (params, session context, extracted_chunks), when
\* none of them is non-blank generate answers success = false without loading
\* the state, building a feedback context or calling the generator; otherwise
\* the generator receives the non-blank chunks only.
C21_NeverWithoutChunks == []C21_Sent /\ [][C21_Step]_vars
\* generate on blank chunks by a facade whose state is not the persisted one
C21_Witness ==
    /\ lastOp.op = "generate"
    /\ lastOp.params.chunks = <<" ">>
    /\ lastOp.error = "no_chunks"
    /\ facade[lastOp.facade].state # LoadState(stored)


\* generate for one mode, without num_items, on chunks of which some are text
WithoutCount(op) ==
    /\ op.op = "generate"
    /\ op.params.content_type \in ModeSet
    /\ op.params.num_items = NoNumber
    /\ op.error # "no_chunks"
NoFeedbackFor(mode) ==
    \A i \in DOMAIN HistoryOf(stored) : HistoryOf(stored)[i].mode # mode

\* C22: for a user without a feedback event of the requested mode (a fresh
\* user, after a reset, or with feedback for other modes only), generate
\* without num_items passes a neutral feedback context (has_feedback false) and
\* the base count of the content type and the number of chunks, unchanged:
\* 10 for flashcards on ten chunks.
C22_NeutralWithoutFeedback ==
    (WithoutCount(lastOp) /\ NoFeedbackFor(lastOp.params.content_type)) =>
        LET mode == lastOp.params.content_type
            request == lastOp.request
        IN  /\ request.sent
            /\ ~request.feedback_context[mode].is_none
            /\ ~request.feedback_context[mode].has_feedback
            /\ request.feedback_context[mode].feedback_count = 0
            /\ request.num_items = CalculateItemCount(mode, Len(request.chunks))
            /\ (mode = "flashcard" /\ Len(request.chunks) = 10) => request.num_items = 10
\* flashcards on ten chunks for a user whose only feedback is for quizzes
C22_Witness ==
    /\ WithoutCount(lastOp)
    /\ lastOp.params.content_type = "flashcard"
    /\ Len(lastOp.request.chunks) = 10
    /\ HistoryOf(stored) # << >>
    /\ NoFeedbackFor("flashcard")

----------------------------------------------------------------------------
(* Claims about the feedback context and the item counts (SpecCtx, SpecCount) *)

\* the positions of the events of the mode in the history
EventsOf(history, mode) == {i \in DOMAIN history : history[i].mode = mode}
RECURSIVE TotalOf(_, _)
TotalOf(history, positions) ==
    IF positions = {} THEN 0
    ELSE LET i == CHOOSE j \in positions : TRUE
         IN  history[i].feedback + TotalOf(history, positions \ {i})
\* the quotient q is the number a / b
IsQuotient(q, a, b) == q[1] * b = a * q[2]

\* fc is a dictionary with the statistics of the events of the mode
StatisticsOf(fc, history, mode) ==
    LET events == EventsOf(history, mode)
        liked == {i \in events : history[i].feedback > Half}
    IN  /\ ~fc.is_none
        /\ fc.has_feedback
        /\ fc.feedback_count = Cardinality(events)
        /\ IsQuotient(fc.average_feedback, TotalOf(history, events), Cardinality(events))
        /\ IsQuotient(fc.positive_rate, One * Cardinality(liked), Cardinality(events))

\* C23: for a mode with at least one feedback event in the history,
\* _get_feedback_context returns a dictionary with has_feedback true whose
\* feedback_count, average_feedback and positive_rate (share of values > 0.5)
\* are those of the events of that mode and of no other, so that generate can
\* go on with it.
C23_ContextOfModeEvents ==
    (calc.fn = "_get_feedback_context" /\ EventsOf(calc.history, calc.content_type) # {}) =>
        StatisticsOf(calc.returned, calc.history, calc.content_type)

\* the last five events of the mode, or all of them
LastEvents(history, mode) ==
    LET events == EventsOf(history, mode)
    IN  {i \in events : Cardinality({j \in events : j > i}) < RecentLen}
\* the tier the mean of the last events asks for
TierOf(history, mode) ==
    LET last == LastEvents(history, mode)
        total == TotalOf(history, last)
    IN  IF 10 * total > 7 * One * Cardinality(last) THEN "maintain"
        ELSE IF 10 * total < 4 * One * Cardinality(last) THEN "simplify"
        ELSE "balanced"
C24_Tier ==
    (calc.fn # None /\ calc.context.has_feedback) =>
        calc.context.adaptation_instructions[1] = TierOf(calc.history, calc.content_type)
C24_Count ==
    (calc.fn = "_calculate_adaptive_count" /\ calc.context.has_feedback) =>
        (calc.count < calc.base_count
            <=> calc.context.adaptation_instructions[1] = "simplify")
AverageBelow(fc, x) == 10 * fc.average_feedback[1] < x * One * fc.average_feedback[2]
AverageAbove(fc, x) == 10 * fc.average_feedback[1] > x * One * fc.average_feedback[2]
\* the count of a call with feedback is within the bounds of its tier
WithinTier(c) ==
    /\ AverageBelow(c.context, 4) => (c.count >= 2 /\ c.count <= c.base_count)
    /\ AverageAbove(c.context, 7) =>
            (c.count >= c.base_count /\ c.count <= 2 * c.base_count)
    /\ (~AverageBelow(c.context, 4) /\ ~AverageAbove(c.context, 7)) =>
            c.count = c.base_count
Adjusted(c) == c.fn = "_calculate_adaptive_count" /\ c.context.has_feedback

\* C25 as stated: for every base count >= 1 and every context with feedback
\* the result is in 2..base below 0.4, in base..2*base above 0.7, and the base
\* between them.
C25_AsClaimed == (Adjusted(calc) /\ calc.base_count >= 1) => WithinTier(calc)
\* C25: for every base count >= 2 and every context with feedback the result
\* is in 2..base when the average feedback is below 0.4, in base..2*base when
\* it is above 0.7, and equal to the base from 0.4 to 0.7.
C25_AdjustedWithinTier == (Adjusted(calc) /\ calc.base_count >= 2) => WithinTier(calc)
\* base 10 with average feedback 0.3 gives 5
C25_Witness ==
    /\ Adjusted(calc)
    /\ calc.base_count = 10
    /\ calc.context.average_feedback = <<3, 1>>
    /\ calc.count = 5

----------------------------------------------------------------------------
\* generate_mixed_bundle: the three calls of a bundle

Submitted(b) == b.entry = "submitted"

\* the bundle is successful exactly when a call was captured with data
C26_Success ==
    Submitted(bundle) =>
        (bundle.response.success <=> \E m \in ModeSet : Usable(bundle.captured[m]))

\* two bundles in which the call of a mode is the same capture the same
\* response for it, whatever the two other calls did
C26_Step ==
    (Submitted(bundle) /\ Submitted(bundle')) =>
        \A m \in ModeSet :
            bundle.calls[m] = bundle'.calls[m] =>
                bundle.captured[m] = bundle'.captured[m]

\* C26: in a mixed bundle the three generator calls are independent: whatever
\* the outcomes of the three calls (data, failure response, exception, timeout),
\* the response captured for a call depends on that call only, never on a
\* failure of another one, and the bundle is successful if and only if at
\* least one of the calls gave data.
C26_IndependentCalls == []C26_Success /\ [][C26_Step]_vars

\* the modes of a bundle for which no data was captured
FailedModes(b) ==
    {m \in ModeSet : ~(b.captured[m].success /\ b.captured[m].data # << >>)}
ReasonOf(b, m) ==
    IF b.captured[m].error \in {None, ""} THEN "Failed to generate"
    ELSE b.captured[m].error
PartialSuccess(b) ==
    Submitted(b) /\ FailedModes(b) # {} /\ FailedModes(b) # ModeSet

\* C27: when some but not all modes of a mixed bundle succeed the bundle is
\* successful; the data of exactly the failed modes is empty and the data of
\* the other modes is what their generator returned; the error names exactly
\* the failed modes, each with its reason; when the three modes succeed there
\* is no error.
C27_PartialSuccess ==
    Submitted(bundle) =>
        LET failed == FailedModes(bundle)
            details == bundle.response.error.details
        IN  /\ PartialSuccess(bundle) => bundle.response.success
            /\ \A m \in ModeSet :
                  IF m \in failed
                  THEN bundle.response.data[m] = << >>
                  ELSE /\ bundle.calls[m].kind = "data"
                       /\ bundle.response.data[m] = Own(m, bundle.calls[m]).data
                       /\ bundle.response.data[m] # << >>
            /\ bundle.response.error.present <=> failed # {}
            /\ Len(details) = Cardinality(failed)
            /\ \A m \in failed :
                  \E i \in DOMAIN details :
                      details[i] = [mode |-> m, reason |-> ReasonOf(bundle, m)]

\* quiz generated, the flashcard generator returned a failure and the wait for
\* the interactive content timed out
C27_Witness ==
    /\ PartialSuccess(bundle)
    /\ FailedModes(bundle) = {"flashcard", "interactive"}
    /\ bundle.calls["flashcard"].kind = "failed"
    /\ bundle.captured["interactive"].error = "Exception: "
    /\ bundle.response.success
    /\ bundle.response.data["quiz"] = <<"quiz">>

----------------------------------------------------------------------------
\* save_state and load_state over the chain of backends

\* the most recent save of the user that returned true
LastGood == trip.good[trip.username]

\* C28: with the backends tried in fallback order, load_state(user) returns
\* the state of the most recent save_state(state, user) that returned true,
\* whichever backends answer each call: a state that went to the file because
\* Supabase did not answer is what a later load returns, also when that load
\* finds Supabase answering again and an older row there.
C28_MostRecentSave ==
    (trip.did = "load_state" /\ LastGood.returned) =>
        trip.loaded = LastGood.state

----------------------------------------------------------------------------
\* _calculate_item_count

ItemCounted == calc.fn = "_calculate_item_count"

\* the smallest and the largest base count of a content type
LeastCount(content_type) ==
    IF content_type = "quiz" THEN 3
    ELSE IF content_type = "flashcard" THEN 5 ELSE 2
MostCount(content_type) ==
    IF content_type = "quiz" THEN 20
    ELSE IF content_type = "flashcard" THEN 25 ELSE 8

C29_Range ==
    ItemCounted =>
        /\ calc.count >= 2
        /\ calc.content_type \in ModeSet =>
              /\ calc.count >= LeastCount(calc.content_type)
              /\ calc.count <= MostCount(calc.content_type)

\* the count of the call against the count for one chunk more
C29_Monotone ==
    ItemCounted =>
        calc.count <= CalculateItemCount(calc.content_type, calc.num_chunks + 1)

\* two calls with the same content type and number of chunks give the same
\* count, whatever was computed before
C29_Step ==
    (ItemCounted /\ ItemCounted'
        /\ calc.content_type = calc'.content_type
        /\ calc.num_chunks = calc'.num_chunks) => calc.count = calc'.count

\* C29: the base item count depends on the content type and the number of
\* chunks only, never on feedback; it is at least 2, within 3..20 for a quiz,
\* 5..25 for flashcards and 2..8 for interactive content, and it never
\* decreases when the number of chunks grows by one.
C29_BaseCount == [](C29_Range /\ C29_Monotone) /\ [][C29_Step]_vars

----------------------------------------------------------------------------
\* the two count adjustments

AdaptiveCounted == calc.fn = "_calculate_adaptive_count"

\* C30: the adjustment _handle_generate makes inline for a single content type
\* and _calculate_adaptive_count, used for the modes of a mixed bundle, agree:
\* for every base count and every feedback context both give the same count,
\* so a mode gets the same adaptive count alone and inside a mixed bundle.
C30_SameCount ==
    AdaptiveCounted => calc.count = calc.inline

\* base count 10 with an average feedback of 0.9: both give 14
C30_Witness ==
    /\ AdaptiveCounted
    /\ calc.base_count = 10
    /\ calc.context.has_feedback
    /\ calc.context.average_feedback = <<9, 1>>
    /\ calc.count = 14
    /\ calc.inline = 14

====
